---- MODULE Spec2Model ----
(***************************************************************************)
(* Verification model of the design-of-experiments core of bofire:         *)
(*   - PolytopeSampler (bofire/strategies/polytope.py)                      *)
(*   - the NChooseK-as-bounds relaxation and the scipy constraint          *)
(*     transformer (bofire/strategies/doe/utils.py)                        *)
(* Numbers are integers or exact fractions; a random draw is either a      *)
(* free choice (unseeded generator) or a choice recorded once per seed and *)
(* replayed afterwards (seeded generator).                                 *)
(***************************************************************************)
EXTENDS Integers, Sequences, FiniteSets, TLC

VARIABLES
    heap,       \* sampler: the Domain objects, by reference (1 = self.domain)
    pc,         \* sampler: position of the ask call
    cand,       \* sampler: candidate_count
    seed,       \* sampler: seed of the top-level strategy
    combos,     \* sampler: sampled_combinations
    per,        \* sampler: num_samples_per_it
    it,         \* sampler: position of the loop over sampled_combinations
    samples,    \* sampler: rows collected from the sub-samplers
    result,     \* sampler: the table returned by _ask
    rngpos,     \* sampler: number of draws made from self.rng
    tape,       \* seeded draws already made: <<kind, seed, a, b>> -> outcome
    run,        \* sampler: 1 = first ask, 2 = second ask with the same seed
    first,      \* sampler: table returned by the first ask
    bdom,       \* bounds: domain given to nchoosek_constraints_as_bounds
    bn,         \* bounds: n_experiments
    bout,       \* bounds: outcome of the call
    sdom,       \* scipy: domain given to constraints_as_scipy_constraints
    sn,         \* scipy: n_experiments
    signore,    \* scipy: ignore_nchoosek
    sout,       \* scipy: outcome of the call
    call,       \* a call of one of the pure functions: its name and arguments
    ret         \* what that call returned or raised

vars == <<heap, pc, cand, seed, combos, per, it, samples, result, rngpos, tape,
          run, first, bdom, bn, bout, sdom, sn, signore, sout, call, ret>>

samplerVars == <<heap, pc, cand, seed, combos, per, it, samples, result, rngpos,
                 tape, run, first>>
boundsVars == <<bdom, bn, bout>>
scipyVars == <<sdom, sn, signore, sout>>
callVars == <<call, ret>>

(***************************************************************************)
(* Bounds of the model                                                     *)
(***************************************************************************)
MaxN == 4          \* largest candidate_count asked of the sampler
MaxSeed == 1       \* seeds are 0..MaxSeed
MaxAgain == 2      \* largest candidate_count of the ask that is repeated

SeedVals == 0..MaxSeed
NoSeed == -1       \* a strategy built without a seed

(***************************************************************************)
(* Generic helpers                                                         *)
(***************************************************************************)
Range(s) == {s[i] : i \in DOMAIN s}

RECURSIVE SetToSeq(_)
SetToSeq(S) ==
    IF S = {} THEN <<>>
    ELSE LET x == CHOOSE y \in S : TRUE IN <<x>> \o SetToSeq(S \ {x})

InjSeqs(S, n) ==
    {f \in [1..n -> S] : \A i, j \in 1..n : i # j => f[i] # f[j]}

RECURSIVE SumSeq(_)
SumSeq(s) == IF s = <<>> THEN 0 ELSE Head(s) + SumSeq(Tail(s))

RECURSIVE Concat(_)
Concat(ss) == IF ss = <<>> THEN <<>> ELSE Head(ss) \o Concat(Tail(ss))

(***************************************************************************)
(* Data model: inputs and constraints                                      *)
(***************************************************************************)
ContinuousInput(key, lo, hi) == [key |-> key, kind |-> "continuous", lo |-> lo, hi |-> hi]
CategoricalInput(key) == [key |-> key, kind |-> "categorical", lo |-> 0, hi |-> 0]

LinearEqualityConstraint(features, coefficients, rhs) ==
    [type |-> "LinearEquality", features |-> features, coefficients |-> coefficients,
     rhs |-> rhs, max_count |-> 0, hasFeatures |-> TRUE, jacobian |-> FALSE]
LinearInequalityConstraint(features, coefficients, rhs) ==
    [type |-> "LinearInequality", features |-> features, coefficients |-> coefficients,
     rhs |-> rhs, max_count |-> 0, hasFeatures |-> TRUE, jacobian |-> FALSE]
NChooseKConstraint(features, max_count) ==
    [type |-> "NChooseK", features |-> features, coefficients |-> <<>>,
     rhs |-> 0, max_count |-> max_count, hasFeatures |-> TRUE, jacobian |-> TRUE]
NonlinearConstraint(type, features, hasFeatures, jacobian) ==
    [type |-> type, features |-> features, coefficients |-> <<>>,
     rhs |-> 0, max_count |-> 0, hasFeatures |-> hasFeatures, jacobian |-> jacobian]
OtherConstraint(features) ==
    [type |-> "Other", features |-> features, coefficients |-> <<>>,
     rhs |-> 0, max_count |-> 0, hasFeatures |-> TRUE, jacobian |-> FALSE]

Domain(inputs, constraints) == [inputs |-> inputs, constraints |-> constraints]

\* domain.inputs.get_keys(): the keys in the order of the (sorted) input list
get_keys(dom) == [i \in DOMAIN dom.inputs |-> dom.inputs[i].key]

\* domain.inputs.get_by_key(key)
get_by_key(dom, key) ==
    dom.inputs[CHOOSE i \in DOMAIN dom.inputs : dom.inputs[i].key = key]

\* domain.constraints.get(NChooseKConstraint)
NChooseKOf(dom) ==
    SelectSeq(dom.constraints, LAMBDA c : c.type = "NChooseK")

\* domain.constraints.get(excludes=NChooseKConstraint)
ExcludeNChooseK(dom) ==
    SelectSeq(dom.constraints, LAMBDA c : c.type # "NChooseK")

is_fixed(feat) == feat.lo = feat.hi

fixed_value(feat) == feat.lo

IndexOfKey(dom, key) == CHOOSE i \in DOMAIN dom.inputs : dom.inputs[i].key = key

ContinuousKeys(dom) ==
    {dom.inputs[i].key : i \in {j \in DOMAIN dom.inputs : dom.inputs[j].kind = "continuous"}}

OtherKeys(dom) ==
    {dom.inputs[i].key : i \in {j \in DOMAIN dom.inputs : dom.inputs[j].kind # "continuous"}}

\* feat.bounds = (lo, hi) on the input called key
SetBounds(dom, key, lo, hi) ==
    [dom EXCEPT !.inputs =
        [i \in DOMAIN dom.inputs |->
            IF dom.inputs[i].key = key
            THEN [dom.inputs[i] EXCEPT !.lo = lo, !.hi = hi]
            ELSE dom.inputs[i]]]

(***************************************************************************)
(* Random generators.  tape maps <<kind, seed, a, b>> to the outcome that  *)
(* the generator seeded with seed gave: the same seed gives the same       *)
(* outcome again; a generator built without a seed gives any outcome.      *)
(***************************************************************************)
Drawn(t, sd, key, S) ==
    IF sd # NoSeed /\ key \in DOMAIN t THEN {t[key]} ELSE S

Record(t, sd, key, v) ==
    IF sd = NoSeed \/ key \in DOMAIN t THEN t ELSE (key :> v) @@ t

\* nd successive self._get_seed() calls of a strategy seeded with sd, the
\* first one being draw number pos of its generator
GetSeeds(t, sd, pos, nd) ==
    {h \in [1..nd -> SeedVals] :
        \A j \in 1..nd : <<h[j]>> \in Drawn(t, sd, <<"seed", sd, pos + j - 1, 0>>, {<<v>> : v \in SeedVals})}

RECURSIVE RecordSeeds(_, _, _, _)
RecordSeeds(t, sd, pos, h) ==
    IF h = <<>> THEN t
    ELSE RecordSeeds(Record(t, sd, <<"seed", sd, pos, 0>>, <<Head(h)>>), sd, pos + 1, Tail(h))

(***************************************************************************)
(* Domain.get_nchoosek_combinations: the unused-feature combinations, the  *)
(* complements of the active sets of max_count features per constraint     *)
(***************************************************************************)
NChooseKFeatures(dom) ==
    UNION {Range(c.features) : c \in Range(NChooseKOf(dom))}

get_nchoosek_combinations(dom) ==
    LET cons == NChooseKOf(dom)
        all == NChooseKFeatures(dom)
        used == {U \in SUBSET all :
                    \A i \in DOMAIN cons :
                        Cardinality(U \cap Range(cons[i].features)) = cons[i].max_count}
    IN SetToSeq({all \ U : U \in used})

(***************************************************************************)
(* get_linear_constraints (unit_scaled = False): per constraint the        *)
(* indices and coefficients of its non-fixed features and the right-hand   *)
(* side -(rhs + c.rhs), rhs having been reduced by the fixed features      *)
(***************************************************************************)
get_linear_constraints(dom, type) ==
    LET cons == SelectSeq(dom.constraints, LAMBDA c : c.type = type)
        one(c) ==
            LET pos == [i \in DOMAIN c.features |-> i]
                free == SelectSeq(pos, LAMBDA i : ~is_fixed(get_by_key(dom, c.features[i])))
                fixd == SelectSeq(pos, LAMBDA i : is_fixed(get_by_key(dom, c.features[i])))
                rhs == 0 - SumSeq([j \in DOMAIN fixd |->
                            fixed_value(get_by_key(dom, c.features[fixd[j]]))
                                * c.coefficients[fixd[j]]])
            IN [indices |-> [j \in DOMAIN free |-> IndexOfKey(dom, c.features[free[j]])],
                coefficients |-> [j \in DOMAIN free |-> c.coefficients[free[j]]],
                rhs |-> 0 - (rhs + c.rhs)]
    IN [k \in DOMAIN cons |-> one(cons[k])]

(***************************************************************************)
(* PolytopeSampler._sample_from_polytope.  A cell is <<"fix", num, den>>   *)
(* (the number num/den), <<"rnd", s, i>> (row i of the draw made with seed *)
(* s) or <<"nan", 0, 0>>.                                                  *)
(***************************************************************************)
RECURSIVE FoldPseudoFixed(_, _, _)
FoldPseudoFixed(dom, eqs, ff) ==
    IF eqs = <<>> THEN ff
    ELSE LET eq == Head(eqs) IN
         IF Len(eq.indices) = 1
         THEN FoldPseudoFixed(dom, Tail(eqs),
                (get_keys(dom)[eq.indices[1]] :> <<"fix", eq.rhs, eq.coefficients[1]>>) @@ ff)
         ELSE FoldPseudoFixed(dom, Tail(eqs), ff)

fixed_features(dom) ==
    LET fixedKeys == {k \in ContinuousKeys(dom) : is_fixed(get_by_key(dom, k))}
        base == [k \in fixedKeys |-> <<"fix", fixed_value(get_by_key(dom, k)), 1>>]
    IN FoldPseudoFixed(dom, get_linear_constraints(dom, "LinearEquality"), base)

free_continuals(dom) == ContinuousKeys(dom) \ DOMAIN fixed_features(dom)

\* number of self._get_seed() calls one _sample_from_polytope makes
SeedCalls(dom) ==
    IF Len(dom.constraints) = 0 THEN 1
    ELSE (IF free_continuals(dom) = {} THEN 0 ELSE 1) + Cardinality(OtherKeys(dom))

\* position among the seeds h of the one used for the column key
SeedOf(dom, h, key) ==
    IF key \in ContinuousKeys(dom) \/ Len(dom.constraints) = 0 THEN h[1]
    ELSE LET others == SetToSeq(OtherKeys(dom))
             j == CHOOSE i \in DOMAIN others : others[i] = key
         IN h[(IF free_continuals(dom) = {} THEN 0 ELSE 1) + j]

_sample_from_polytope(dom, n, h, u) ==
    LET keys == Range(get_keys(dom)) IN
    IF Len(dom.constraints) = 0
    THEN [i \in 1..n |->
            [src |-> u,
             cells |-> [k \in keys |->
                IF is_fixed(get_by_key(dom, k)) /\ k \in ContinuousKeys(dom)
                THEN <<"fix", fixed_value(get_by_key(dom, k)), 1>>
                ELSE <<"rnd", SeedOf(dom, h, k), i>>]]]
    ELSE LET ff == fixed_features(dom) IN
         [i \in 1..n |->
            [src |-> u,
             cells |-> [k \in keys |->
                IF k \in DOMAIN ff THEN ff[k]
                ELSE <<"rnd", SeedOf(dom, h, k), i>>]]]

(***************************************************************************)
(* PolytopeSampler._ask                                                    *)
(***************************************************************************)
\* a copy that shares the object instead of duplicating it
deepcopy_shared(h, ref) == [heap |-> h, ref |-> ref]

\* deepcopy(self.domain): a new object holding a copy
deepcopy(h, ref) == [heap |-> Append(h, h[ref]), ref |-> Len(h) + 1]

\* rounding down instead of up
num_samples_per_it_floor(candidate_count, n_unused) ==
    candidate_count \div n_unused

\* math.ceil(candidate_count / len(unused))
num_samples_per_it(candidate_count, n_unused) ==
    (candidate_count + n_unused - 1) \div n_unused

\* for key in u: feat.bounds = (0, 0)
RECURSIVE FixUnused(_, _)
FixUnused(dom, u) ==
    IF u = {} THEN dom
    ELSE LET key == CHOOSE k \in u : TRUE
         IN FixUnused(SetBounds(dom, key, 0, 0), u \ {key})

\* PolytopeSampler.duplicate: a sampler on domain, built from a data model
\* that is given the fallback method, n_burnin and n_thinning, and no seed
duplicate(domain) == [domain |-> domain, seed |-> NoSeed]

\* no NChooseK constraint: return self._sample_from_polytope(candidate_count)
AskDirect ==
    /\ pc = "idle"
    /\ Len(NChooseKOf(heap[1])) = 0
    /\ \E h \in GetSeeds(tape, seed, rngpos, SeedCalls(heap[1])) :
        /\ result' = _sample_from_polytope(heap[1], cand, h, {})
        /\ tape' = RecordSeeds(tape, seed, rngpos, h)
        /\ rngpos' = rngpos + Len(h)
    /\ pc' = "done"
    /\ UNCHANGED <<heap, cand, seed, combos, per, it, samples, run, first>>
    /\ UNCHANGED <<boundsVars, scipyVars, callVars>>

\* NChooseK constraints: choose the combinations and the samples per combination
AskChoose ==
    /\ pc = "idle"
    /\ Len(NChooseKOf(heap[1])) > 0
    /\ LET unused == get_nchoosek_combinations(heap[1]) IN
        IF cand <= Len(unused)
        THEN \E ch \in Drawn(tape, seed, <<"choice", seed, rngpos, cand>>,
                             InjSeqs(1..Len(unused), cand)) :
                /\ combos' = [i \in 1..cand |-> unused[ch[i]]]
                /\ per' = 1
                /\ tape' = Record(tape, seed, <<"choice", seed, rngpos, cand>>, ch)
                /\ rngpos' = rngpos + 1
                /\ pc' = "loop"
        ELSE /\ combos' = unused
             /\ per' = IF Len(unused) = 0 THEN 0
                       ELSE num_samples_per_it(cand, Len(unused))
             /\ pc' = IF Len(unused) = 0 THEN "ZeroDivisionError" ELSE "loop"
             /\ UNCHANGED <<tape, rngpos>>
    /\ it' = 1
    /\ samples' = <<>>
    /\ UNCHANGED <<heap, cand, seed, result, run, first>>
    /\ UNCHANGED <<boundsVars, scipyVars, callVars>>

\* one pass of "for u in sampled_combinations"
AskIter ==
    /\ pc = "loop"
    /\ it <= Len(combos)
    /\ LET u == combos[it]
           cp == deepcopy(heap, 1)
           stripped == [cp.heap[cp.ref] EXCEPT !.constraints = ExcludeNChooseK(cp.heap[cp.ref])]
           allContinuous == u \subseteq ContinuousKeys(stripped)
           fixd == FixUnused(stripped, u)
           sampler == duplicate(fixd)
       IN IF ~allContinuous
          THEN /\ pc' = "AssertionError"
               /\ heap' = [cp.heap EXCEPT ![cp.ref] = stripped]
               /\ UNCHANGED <<samples, it>>
          ELSE /\ heap' = [cp.heap EXCEPT ![cp.ref] = sampler.domain]
               /\ \E h \in GetSeeds(tape, sampler.seed, 0, SeedCalls(sampler.domain)) :
                    samples' = Append(samples,
                        _sample_from_polytope(heap'[cp.ref], per, h, u))
               /\ it' = it + 1
               /\ pc' = "loop"
    /\ UNCHANGED <<cand, seed, combos, per, result, rngpos, tape, run, first>>
    /\ UNCHANGED <<boundsVars, scipyVars, callVars>>

\* pd.concat(samples).sample(n=candidate_count, replace=False, random_state=seed)
AskFinish ==
    /\ pc = "loop"
    /\ it > Len(combos)
    /\ LET all == Concat(samples) IN
       \E h \in GetSeeds(tape, seed, rngpos, 1) :
          LET key == <<"sample", h[1], Len(all), cand>> IN
          /\ rngpos' = rngpos + 1
          /\ IF cand > Len(all)
             THEN /\ pc' = "ValueError"
                  /\ result' = <<>>
                  /\ tape' = RecordSeeds(tape, seed, rngpos, h)
             ELSE \E sel \in Drawn(RecordSeeds(tape, seed, rngpos, h), h[1], key,
                                   InjSeqs(1..Len(all), cand)) :
                  /\ result' = [i \in 1..cand |-> all[sel[i]]]
                  /\ tape' = Record(RecordSeeds(tape, seed, rngpos, h), h[1], key, sel)
                  /\ pc' = "done"
    /\ UNCHANGED <<heap, cand, seed, combos, per, it, samples, run, first>>
    /\ UNCHANGED <<boundsVars, scipyVars, callVars>>

\* a second sampler, built with the same seed on the same domain, is asked
SecondAsk ==
    /\ pc = "done"
    /\ run = 1
    /\ run' = 2
    /\ first' = result
    /\ pc' = "idle"
    /\ heap' = <<heap[1]>>
    /\ rngpos' = 0
    /\ combos' = <<>>
    /\ per' = 0
    /\ it' = 1
    /\ samples' = <<>>
    /\ result' = <<>>
    /\ UNCHANGED <<cand, seed, tape>>
    /\ UNCHANGED <<boundsVars, scipyVars, callVars>>

(***************************************************************************)
(* The domains the sampler is asked on                                     *)
(***************************************************************************)
UnitInputs == <<ContinuousInput("x1", 0, 1), ContinuousInput("x2", 0, 1),
                ContinuousInput("x3", 0, 1)>>

SumToOne == LinearEqualityConstraint(<<"x1", "x2", "x3">>, <<1, 1, 1>>, 1)

SamplerConstraints ==
    { <<>>,
      <<SumToOne>>,
      <<LinearInequalityConstraint(<<"x1", "x2">>, <<1, 1>>, 1)>>,
      <<NChooseKConstraint(<<"x1", "x2", "x3">>, 3)>>,
      <<NChooseKConstraint(<<"x1", "x2", "x3">>, 2)>>,
      <<NChooseKConstraint(<<"x1", "x2", "x3">>, 1)>>,
      <<NChooseKConstraint(<<"x1", "x2">>, 1)>>,
      <<SumToOne, NChooseKConstraint(<<"x1", "x2", "x3">>, 2)>>,
      <<SumToOne, NChooseKConstraint(<<"x1", "x2", "x3">>, 1)>> }

IdleBounds ==
    /\ bdom = Domain(<<>>, <<>>)
    /\ bn = 0
    /\ bout = [kind |-> "none", bounds |-> <<>>, shuffled |-> <<>>]

IdleScipy ==
    /\ sdom = Domain(<<>>, <<>>)
    /\ sn = 0
    /\ signore = TRUE
    /\ sout = [kind |-> "none", list |-> <<>>]

IdleCall ==
    /\ call = [fn |-> "none"]
    /\ ret = [kind |-> "none"]

IdleSampler ==
    /\ heap = <<>>
    /\ pc = "off"
    /\ cand = 0
    /\ seed = 0
    /\ combos = <<>>
    /\ per = 0
    /\ it = 1
    /\ samples = <<>>
    /\ result = <<>>
    /\ rngpos = 0
    /\ tape = <<>>
    /\ run = 1
    /\ first = <<>>

Init ==
    /\ \E cs \in SamplerConstraints : heap = <<Domain(UnitInputs, cs)>>
    /\ pc = "idle"
    /\ cand \in 1..MaxN
    /\ seed \in SeedVals
    /\ combos = <<>>
    /\ per = 0
    /\ it = 1
    /\ samples = <<>>
    /\ result = <<>>
    /\ rngpos = 0
    /\ tape = <<>>
    /\ run = 1
    /\ first = <<>>
    /\ IdleBounds
    /\ IdleScipy
    /\ IdleCall

InitTwoAsks ==
    /\ Init
    /\ cand <= MaxAgain

Next == AskDirect \/ AskChoose \/ AskIter \/ AskFinish

Spec == Init /\ [][Next]_vars

NextTwoAsks == AskDirect \/ AskChoose \/ AskIter \/ AskFinish \/ SecondAsk

SpecTwoAsks == InitTwoAsks /\ [][NextTwoAsks]_vars

(***************************************************************************)
(* check_nchoosek_constraints_as_bounds and nchoosek_constraints_as_bounds *)
(***************************************************************************)
\* only the lower bound is looked at
ZeroOutsideBounds_lower(input) == input.lo > 0

\* input.bounds[0] > 0 or input.bounds[1] < 0
ZeroOutsideBounds(input) == input.lo > 0 \/ input.hi < 0

\* "ok" when the check returns, "ValueError" when it raises
check_nchoosek_constraints_as_bounds(dom) ==
    LET nchoosek_constraints == NChooseKOf(dom) IN
    IF Len(dom.constraints) = 0 THEN "ok"
    ELSE IF Len(nchoosek_constraints) = 0 THEN "ok"
    ELSE IF \E k \in DOMAIN nchoosek_constraints :
                \E name \in Range(nchoosek_constraints[k].features) :
                    ZeroOutsideBounds(get_by_key(dom, name))
         THEN "ValueError"
    ELSE IF \E k, l \in DOMAIN nchoosek_constraints :
                /\ nchoosek_constraints[k] # nchoosek_constraints[l]
                /\ \E name \in Range(nchoosek_constraints[k].features) :
                        name \in Range(nchoosek_constraints[l].features)
         THEN "ValueError"
    ELSE "ok"

\* [p.bounds for p in domain.inputs.get(ContinuousInput)] * n_experiments
BoundsWithoutNChooseK(dom, n_experiments) ==
    LET cont == SelectSeq(dom.inputs, LAMBDA p : p.kind = "continuous")
        nc == Len(cont)
    IN [e \in 1..(nc * n_experiments) |->
            LET p == cont[((e - 1) % nc) + 1] IN <<p.lo, p.hi>>]

\* positions (from 0) in domain.inputs.get_keys() of the constraint's features
FeatureIndices(dom, constraint) ==
    {i - 1 : i \in {j \in DOMAIN dom.inputs : dom.inputs[j].key \in Range(constraint.features)}}

\* combinations(ind, r = n_inactive), as a set
InactiveCombinations(dom, constraint) ==
    LET n_inactive == Len(constraint.features) - constraint.max_count
    IN {T \in SUBSET FeatureIndices(dom, constraint) : Cardinality(T) = n_inactive}

\* i * len(domain.inputs)
ExperimentOffset(dom, i) == i * Len(dom.inputs)

\* the entries (from 0) experiment i sets to [0, 0], ind being the shuffled list
VanishIndices(dom, ind, i) ==
    {j + ExperimentOffset(dom, i) : j \in ind[(i % Len(ind)) + 1]}

\* the loop "for i in range(n_experiments)" of one NChooseK constraint:
\* the bounds after it, or <<"IndexError">> when an index cannot be used
RECURSIVE PinExperiments(_, _, _, _, _)
PinExperiments(dom, ind, bounds, i, n_experiments) ==
    IF i >= n_experiments THEN bounds
    ELSE IF bounds = <<"IndexError">> THEN bounds
    ELSE LET vanish == VanishIndices(dom, ind, i) IN
         IF ind[(i % Len(ind)) + 1] = {}
            \/ \E j \in vanish : j >= Len(bounds)
         THEN <<"IndexError">>
         ELSE PinExperiments(dom, ind,
                [e \in DOMAIN bounds |-> IF e - 1 \in vanish THEN <<0, 0>> ELSE bounds[e]],
                i + 1, n_experiments)

\* the loop over domain.constraints; shuffled[k] is the order np.random.shuffle
\* gave the combinations of constraint number k
RECURSIVE PinConstraints(_, _, _, _, _)
PinConstraints(dom, shuffled, bounds, k, n_experiments) ==
    IF k > Len(dom.constraints) THEN bounds
    ELSE IF bounds = <<"IndexError">> THEN bounds
    ELSE IF dom.constraints[k].type = "NChooseK"
         THEN PinConstraints(dom, shuffled,
                PinExperiments(dom, shuffled[k], bounds, 0, n_experiments),
                k + 1, n_experiments)
         ELSE PinConstraints(dom, shuffled, bounds, k + 1, n_experiments)

\* the orders np.random.shuffle can give the combinations of constraint k
ShuffleOrders(dom, k) ==
    IF dom.constraints[k].type = "NChooseK"
    THEN InjSeqs(InactiveCombinations(dom, dom.constraints[k]),
                 Cardinality(InactiveCombinations(dom, dom.constraints[k])))
    ELSE {<<>>}

ShuffleOutcomes(dom) ==
    {sh \in [DOMAIN dom.constraints ->
                UNION {ShuffleOrders(dom, k) : k \in DOMAIN dom.constraints}] :
        \A k \in DOMAIN dom.constraints : sh[k] \in ShuffleOrders(dom, k)}

nchoosek_constraints_as_bounds(dom, n_experiments, shuffled) ==
    IF check_nchoosek_constraints_as_bounds(dom) = "ValueError"
    THEN [kind |-> "ValueError", bounds |-> <<>>, shuffled |-> <<>>]
    ELSE LET b == PinConstraints(dom, shuffled,
                    BoundsWithoutNChooseK(dom, n_experiments), 1, n_experiments)
         IN IF b = <<"IndexError">>
            THEN [kind |-> "IndexError", bounds |-> <<>>, shuffled |-> shuffled]
            ELSE [kind |-> "bounds", bounds |-> b, shuffled |-> shuffled]

CallNChooseKAsBounds ==
    /\ bout.kind = "none"
    /\ bn > 0
    /\ \E sh \in ShuffleOutcomes(bdom) :
        bout' = nchoosek_constraints_as_bounds(bdom, bn, sh)
    /\ UNCHANGED <<bdom, bn>>
    /\ UNCHANGED <<samplerVars, scipyVars, callVars>>

(***************************************************************************)
(* constraints_as_scipy_constraints.  A number of a scipy constraint is    *)
(* [num, nsq], standing for num / sqrt(nsq): nsq is the squared norm of    *)
(* the coefficients it was divided by (1 for a number that was not         *)
(* divided).  With nsq = 0 it is the float the division by 0.0 gives:      *)
(* nan for num = 0, +inf for num > 0, -inf for num < 0.                    *)
(***************************************************************************)
Exact(v) == [num |-> v, nsq |-> 1]

NegInf == [num |-> -1, nsq |-> 0]

IsNaN(a) == a.nsq = 0 /\ a.num = 0

IsInf(a) == a.nsq = 0 /\ a.num # 0

\* np.linalg.norm(c.coefficients), squared
NormSq(c) == SumSeq([j \in DOMAIN c.coefficients |-> c.coefficients[j] * c.coefficients[j]])

\* v / np.linalg.norm(c.coefficients)
DivNorm(v, c) == [num |-> v, nsq |-> NormSq(c)]

\* lhs = {c.features[i]: c.coefficients[i] / norm for i in range(len(c.features))}
\* read at name: the entry written last
lhs(c, name) ==
    LET last == CHOOSE i \in DOMAIN c.features :
                    /\ c.features[i] = name
                    /\ \A j \in DOMAIN c.features : c.features[j] = name => j <= i
    IN DivNorm(c.coefficients[last], c)

\* row = np.zeros(D); row[i] = lhs[name] for the names of get_keys() in lhs
CoefficientRow(dom, c) ==
    [j \in DOMAIN dom.inputs |->
        IF get_keys(dom)[j] \in Range(c.features)
        THEN lhs(c, get_keys(dom)[j])
        ELSE Exact(0)]

\* every experiment writes its row into the first block
BlockDiagonal_first(row, n_experiments, D) ==
    [i \in 1..n_experiments |->
        [col \in 1..(D * n_experiments) |->
            IF col <= D THEN row[col] ELSE Exact(0)]]

\* A = np.zeros((n_experiments, D * n_experiments));
\* A[i, i * D : (i + 1) * D] = row for every i
BlockDiagonal(row, n_experiments, D) ==
    [i \in 1..n_experiments |->
        [col \in 1..(D * n_experiments) |->
            IF (i - 1) * D < col /\ col <= i * D
            THEN row[col - (i - 1) * D]
            ELSE Exact(0)]]

ScipyLinear(src, A, lb, ub) ==
    [type |-> "LinearConstraint", src |-> src, A |-> A, lb |-> lb, ub |-> ub, jac |-> FALSE]

ScipyNonlinear(src, lb, ub, jac) ==
    [type |-> "NonlinearConstraint", src |-> src, A |-> <<>>, lb |-> lb, ub |-> ub, jac |-> jac]

\* ConstraintWrapper.__init__: raises ValueError when constraint.features is None
ConstraintWrapperRaises(c) == ~c.hasFeatures

\* a constraint of no known type is skipped
UnknownConstraint_skip(c) == [kind |-> "pass", item |-> <<>>]

\* else: raise NotImplementedError(f"No implementation for this constraint: {c}")
UnknownConstraint(c) == [kind |-> "NotImplementedError", item |-> <<>>]

\* one pass of "for c in domain.constraints": what it appends, or the
\* exception it raises
TransformOne(dom, k, n_experiments, ignore_nchoosek) ==
    LET c == dom.constraints[k]
        D == Len(dom.inputs)
        ones(v) == [i \in 1..n_experiments |-> v]
    IN CASE c.type = "LinearEquality" ->
                [kind |-> "append",
                 item |-> ScipyLinear(k, BlockDiagonal(CoefficientRow(dom, c), n_experiments, D),
                                      ones(DivNorm(c.rhs, c)), ones(DivNorm(c.rhs, c)))]
         [] c.type = "LinearInequality" ->
                [kind |-> "append",
                 item |-> ScipyLinear(k, BlockDiagonal(CoefficientRow(dom, c), n_experiments, D),
                                      ones(NegInf), ones(DivNorm(c.rhs, c)))]
         [] c.type = "NonlinearEquality" ->
                IF ConstraintWrapperRaises(c)
                THEN [kind |-> "ValueError", item |-> <<>>]
                ELSE [kind |-> "append",
                      item |-> ScipyNonlinear(k, ones(Exact(0)), ones(Exact(0)), c.jacobian)]
         [] c.type = "NonlinearInequality" ->
                IF ConstraintWrapperRaises(c)
                THEN [kind |-> "ValueError", item |-> <<>>]
                ELSE [kind |-> "append",
                      item |-> ScipyNonlinear(k, ones(NegInf), ones(Exact(0)), c.jacobian)]
         [] c.type = "NChooseK" ->
                IF ignore_nchoosek
                THEN [kind |-> "pass", item |-> <<>>]
                ELSE IF ConstraintWrapperRaises(c)
                THEN [kind |-> "ValueError", item |-> <<>>]
                ELSE [kind |-> "append",
                      item |-> ScipyNonlinear(k, ones(NegInf), ones(Exact(0)), TRUE)]
         [] OTHER -> UnknownConstraint(c)

RECURSIVE TransformFrom(_, _, _, _, _)
TransformFrom(dom, k, n_experiments, ignore_nchoosek, constraints) ==
    IF k > Len(dom.constraints)
    THEN [kind |-> "list", list |-> constraints]
    ELSE LET one == TransformOne(dom, k, n_experiments, ignore_nchoosek) IN
         CASE one.kind = "append" ->
                TransformFrom(dom, k + 1, n_experiments, ignore_nchoosek,
                              Append(constraints, one.item))
           [] one.kind = "pass" ->
                TransformFrom(dom, k + 1, n_experiments, ignore_nchoosek, constraints)
           [] OTHER -> [kind |-> one.kind, list |-> <<>>]

constraints_as_scipy_constraints(dom, n_experiments, ignore_nchoosek) ==
    IF Len(dom.constraints) = 0
    THEN [kind |-> "list", list |-> <<>>]
    ELSE TransformFrom(dom, 1, n_experiments, ignore_nchoosek, <<>>)

CallConstraintsAsScipy ==
    /\ sout.kind = "none"
    /\ sn > 0
    /\ sout' = constraints_as_scipy_constraints(sdom, sn, signore)
    /\ UNCHANGED <<sdom, sn, signore>>
    /\ UNCHANGED <<samplerVars, boundsVars, callVars>>

(***************************************************************************)
(* The domains nchoosek_constraints_as_bounds is called on: four           *)
(* continuous inputs, with or without a categorical one (which sorts       *)
(* after them), and the bounds below                                       *)
(***************************************************************************)
MaxExp == 3        \* largest n_experiments of nchoosek_constraints_as_bounds

BoundsKeys == <<"x1", "x2", "x3", "x4">>

BoundsChoices ==
    {[k \in 1..4 |-> <<0, 1>>], [k \in 1..4 |-> <<-1, 1>>]}
    \cup {[k \in 1..4 |-> IF k = p THEN b ELSE <<0, 1>>] :
            p \in 1..4, b \in {<<1, 2>>, <<-2, -1>>, <<-1, 0>>}}

BoundsInputs(bs, withCategorical) ==
    [k \in 1..4 |-> ContinuousInput(BoundsKeys[k], bs[k][1], bs[k][2])]
    \o (IF withCategorical THEN <<CategoricalInput("c1")>> ELSE <<>>)

BoundsConstraints ==
    { <<>>,
      <<SumToOne>>,
      <<NChooseKConstraint(<<"x1", "x2", "x3">>, 3)>>,
      <<NChooseKConstraint(<<"x1", "x2", "x3">>, 2)>>,
      <<NChooseKConstraint(<<"x1", "x2", "x3">>, 1)>>,
      <<SumToOne, NChooseKConstraint(<<"x2", "x3">>, 1)>>,
      <<NChooseKConstraint(<<"x1", "x2">>, 1), NChooseKConstraint(<<"x3", "x4">>, 1)>>,
      <<NChooseKConstraint(<<"x1", "x2">>, 1), NChooseKConstraint(<<"x2", "x3">>, 1)>>,
      <<NChooseKConstraint(<<"x1", "x2">>, 1), NChooseKConstraint(<<"x1", "x2">>, 1)>> }

InitBounds ==
    /\ IdleSampler
    /\ IdleScipy
    /\ IdleCall
    /\ \E bs \in BoundsChoices, wc \in BOOLEAN, cs \in BoundsConstraints :
        bdom = Domain(BoundsInputs(bs, wc), cs)
    /\ bn \in 1..MaxExp
    /\ bout = [kind |-> "none", bounds |-> <<>>, shuffled |-> <<>>]

NextBounds == CallNChooseKAsBounds

SpecBounds == InitBounds /\ [][NextBounds]_vars

(***************************************************************************)
(* The domains constraints_as_scipy_constraints is called on: three inputs *)
(* and every constraint list of at most MaxCons entries of the pool        *)
(***************************************************************************)
MaxCons == 2       \* longest constraint list given to the transformer
MaxExpS == 2       \* largest n_experiments given to the transformer
MaxX == 1          \* design entries are 0..MaxX

ConstraintPool ==
    { LinearEqualityConstraint(<<"x1", "x2">>, <<1, 1>>, 1),
      LinearEqualityConstraint(<<"x3", "x1">>, <<2, 1>>, 2),
      LinearEqualityConstraint(<<"x1", "x2">>, <<0, 0>>, 0),
      LinearInequalityConstraint(<<"x2", "x3">>, <<1, 2>>, 2),
      LinearInequalityConstraint(<<"x3", "x1">>, <<-1, 1>>, 0),
      NonlinearConstraint("NonlinearEquality", <<"x1", "x2">>, TRUE, TRUE),
      NonlinearConstraint("NonlinearEquality", <<>>, FALSE, FALSE),
      NonlinearConstraint("NonlinearInequality", <<"x2", "x3">>, TRUE, FALSE),
      NChooseKConstraint(<<"x1", "x2", "x3">>, 2),
      OtherConstraint(<<"x1", "x2">>) }

ConstraintLists == UNION {[1..len -> ConstraintPool] : len \in 0..MaxCons}

InitScipy ==
    /\ IdleSampler
    /\ IdleBounds
    /\ IdleCall
    /\ \E cs \in ConstraintLists : sdom = Domain(UnitInputs, cs)
    /\ sn \in 1..MaxExpS
    /\ signore \in BOOLEAN
    /\ sout = [kind |-> "none", list |-> <<>>]

NextScipy == CallConstraintsAsScipy

SpecScipy == InitScipy /\ [][NextScipy]_vars

(***************************************************************************)
(* Claims about PolytopeSampler                                            *)
(***************************************************************************)
HasNChooseK == Len(NChooseKOf(heap[1])) > 0

Unused == get_nchoosek_combinations(heap[1])

\* C1: _ask(candidate_count = n), n >= 1, returns a table of exactly n rows
\* on every path (no NChooseK; NChooseK with n <= combinations; NChooseK
\* with n > combinations), and no path ends in an exception.
C1_AskReturnsNRows ==
    /\ pc \in {"idle", "loop", "done"}
    /\ pc = "done" => Len(result) = cand

\* n exceeds the number of combinations and is no multiple of it: more rows
\* were generated than asked, and n of them are returned
C1_Witness ==
    /\ pc = "done"
    /\ HasNChooseK
    /\ cand > Len(Unused)
    /\ Len(Concat(samples)) > cand
    /\ Len(result) = cand

\* C2: with NChooseK constraints and n >= C (the number of unused-feature
\* combinations) the returned table holds at least one row generated for
\* each of the C combinations; with n < C its rows come from n distinct
\* combinations, one row each.
C2_EveryCombinationInTable ==
    (pc = "done" /\ HasNChooseK) =>
        IF cand >= Len(Unused)
        THEN \A u \in Range(Unused) : \E i \in DOMAIN result : result[i].src = u
        ELSE /\ \A i \in DOMAIN result : result[i].src \in Range(Unused)
             /\ \A i, j \in DOMAIN result : i # j => result[i].src # result[j].src

\* C3: two ask(n) calls made with the same seed on identical domains and
\* constraints return identical tables, also when sampling is delegated to
\* the sub-samplers created by duplicate().
C3_SameSeedSameTable ==
    (run = 2 /\ pc = "done") => result = first

\* C4: _ask never mutates the sampler's own domain (same constraint list,
\* NChooseK included, same bounds); only the per-combination clones have
\* the unused features pinned to (0, 0) and the NChooseK constraints removed.
C4_ClonesOnly ==
    \A r \in 2..Len(heap) :
        /\ r - 1 \in DOMAIN combos
        /\ heap[r].constraints = ExcludeNChooseK(heap[1])
        /\ \A i \in DOMAIN heap[r].inputs :
            IF heap[1].inputs[i].key \in combos[r - 1]
            THEN heap[r].inputs[i] = [heap[1].inputs[i] EXCEPT !.lo = 0, !.hi = 0]
            ELSE heap[r].inputs[i] = heap[1].inputs[i]

\* C4, as a property of every step of _ask: the own domain is left as it
\* was and every other domain of the heap is a pinned clone of it.
C4_OriginalDomainKept ==
    [][heap'[1] = heap[1] /\ C4_ClonesOnly']_vars

\* the call has returned, clones were pinned, and the own domain still has
\* its NChooseK constraint and no pinned input
C4_Witness ==
    /\ pc = "done"
    /\ Len(heap) > 2
    /\ HasNChooseK
    /\ \E i \in DOMAIN heap[2].inputs : heap[2].inputs[i].hi = 0
    /\ \A i \in DOMAIN heap[1].inputs : heap[1].inputs[i].hi = 1

(***************************************************************************)
(* Claims about the NChooseK-as-bounds relaxation                          *)
(***************************************************************************)
BoundsContinuous == SelectSeq(bdom.inputs, LAMBDA p : p.kind = "continuous")

\* the entry of the returned list for continuous input number j (from 1)
\* in the block of experiment i (from 0)
BlockEntry(i, j) == bout.bounds[i * Len(BoundsContinuous) + j]

\* the features of constraint c pinned to (0, 0) in the block of experiment i
PinnedIn(i, c) ==
    {j \in DOMAIN BoundsContinuous :
        /\ BoundsContinuous[j].key \in Range(c.features)
        /\ BlockEntry(i, j) = <<0, 0>>}

\* C5: in the returned bounds, for every experiment i and every NChooseK
\* constraint with max_count = k, at least |features| - k of the
\* constraint's features have bounds (0, 0) inside the block of experiment i.
C5_EnoughFeaturesPinned ==
    bout.kind = "bounds" =>
        \A i \in 0..(bn - 1) : \A c \in Range(NChooseKOf(bdom)) :
            Cardinality(PinnedIn(i, c)) >= Len(c.features) - c.max_count

\* C6: the check raises ValueError whenever two entries of the constraint
\* list are NChooseK constraints with at least one feature in common.
C6_SharedFeatureRaises ==
    (/\ bout.kind # "none"
     /\ \E k, l \in DOMAIN bdom.constraints :
            /\ k # l
            /\ bdom.constraints[k].type = "NChooseK"
            /\ bdom.constraints[l].type = "NChooseK"
            /\ Range(bdom.constraints[k].features)
                    \cap Range(bdom.constraints[l].features) # {})
    => bout.kind = "ValueError"

NChooseKInputs ==
    {get_by_key(bdom, name) : name \in NChooseKFeatures(bdom)}

\* C7 as stated: a domain is accepted only if every feature referenced by
\* an NChooseK constraint has 0 strictly inside its bounds (lower < 0 < upper).
C7_ZeroStrictlyInside ==
    bout.kind = "bounds" => \A input \in NChooseKInputs : input.lo < 0 /\ 0 < input.hi

\* C7 as amended: a domain is accepted only if every feature referenced by
\* an NChooseK constraint has 0 within its bounds, the ends included
\* (lower <= 0 <= upper); if some referenced feature does not, ValueError
\* is raised and no bounds are returned.
C7_ZeroWithinBounds ==
    /\ bout.kind = "bounds" =>
            \A input \in NChooseKInputs : input.lo <= 0 /\ 0 <= input.hi
    /\ (bout.kind # "none"
            /\ \E input \in NChooseKInputs : ~(input.lo <= 0 /\ 0 <= input.hi))
        => (bout.kind = "ValueError" /\ bout.bounds = <<>>)

\* bounds were returned for a constraint on inputs bounded by (0, 1)
C7_Witness ==
    /\ bout.kind = "bounds"
    /\ NChooseKInputs # {}
    /\ \A input \in NChooseKInputs : input.lo = 0 /\ input.hi = 1
    /\ \E e \in DOMAIN bout.bounds : bout.bounds[e] = <<0, 0>>


(***************************************************************************)
(* Claims about constraints_as_scipy_constraints                           *)
(***************************************************************************)
ScipyD == Len(sdom.inputs)

IsLinear(c) == c.type \in {"LinearEquality", "LinearInequality"}

IsKnown(c) ==
    c.type \in {"LinearEquality", "LinearInequality", "NonlinearEquality",
                "NonlinearInequality", "NChooseK"}

LinearResults == {k \in DOMAIN sout.list : sout.list[k].type = "LinearConstraint"}

\* the coefficient of the input at position j of get_keys(), over the norm
ExpectedEntry(c, j) ==
    IF \E m \in DOMAIN c.features : c.features[m] = get_keys(sdom)[j]
    THEN LET m == CHOOSE m \in DOMAIN c.features : c.features[m] = get_keys(sdom)[j]
         IN [num |-> c.coefficients[m], nsq |-> NormSq(c)]
    ELSE [num |-> 0, nsq |-> 1]

\* C8: the matrix A of every linear constraint has n_experiments rows and
\* D * n_experiments columns; row i holds the per-experiment coefficient row
\* in the columns i*D .. i*D + D - 1 and zero in every other column.
C8_BlockDiagonal ==
    sout.kind = "list" =>
        \A k \in LinearResults :
            LET sc == sout.list[k]
                c == sdom.constraints[sc.src]
            IN /\ IsLinear(c)
               /\ Len(sc.A) = sn
               /\ \A i \in 0..(sn - 1) :
                    /\ Len(sc.A[i + 1]) = ScipyD * sn
                    /\ \A j \in 0..(ScipyD - 1) :
                         sc.A[i + 1][i * ScipyD + j + 1] = ExpectedEntry(c, j + 1)
                    /\ \A col \in 0..(ScipyD * sn - 1) :
                         (col < i * ScipyD \/ col >= (i + 1) * ScipyD)
                             => sc.A[i + 1][col + 1] = [num |-> 0, nsq |-> 1]

C8_Witness ==
    /\ sout.kind = "list"
    /\ sn >= 2
    /\ \E k \in LinearResults :
         \E j \in 1..ScipyD : sout.list[k].A[2][ScipyD + j].num # 0

\* the designs row i is evaluated on: every choice of experiment i's entries,
\* the entries of the other experiments all equal
Designs(i) ==
    {x \in [1..(ScipyD * sn) -> 0..MaxX] :
        \A a, b \in 1..(ScipyD * sn) :
            (~(i * ScipyD < a /\ a <= (i + 1) * ScipyD)
             /\ ~(i * ScipyD < b /\ b <= (i + 1) * ScipyD)) => x[a] = x[b]}

\* (A x)[i] in float arithmetic: nan as soon as one entry of the row is nan
RowDot(Arow, x, nsq) ==
    IF \E col \in DOMAIN Arow : IsNaN(Arow[col])
    THEN [num |-> 0, nsq |-> 0]
    ELSE [num |-> SumSeq([col \in DOMAIN Arow |-> Arow[col].num * x[col]]), nsq |-> nsq]

\* a <= b on floats; every comparison with nan is false
Leq(a, b) ==
    /\ ~IsNaN(a)
    /\ ~IsNaN(b)
    /\ CASE a.nsq = 0 -> a.num < 0 \/ (b.nsq = 0 /\ b.num > 0)
         [] b.nsq = 0 -> b.num > 0
         [] a.nsq = b.nsq -> a.num <= b.num
         [] a.num = 0 -> 0 <= b.num
         [] b.num = 0 -> a.num <= 0
         [] OTHER -> FALSE

ScipySatisfied(sc, x, i) ==
    LET ax == RowDot(sc.A[i + 1], x, sc.ub[i + 1].nsq)
    IN Leq(sc.lb[i + 1], ax) /\ Leq(ax, sc.ub[i + 1])

\* sum_j coefficients[j] * x[i, features[j]] compared with rhs
OriginalSatisfied(c, x, i) ==
    LET total == SumSeq([j \in DOMAIN c.features |->
                    c.coefficients[j] * x[i * ScipyD + IndexOfKey(sdom, c.features[j])]])
    IN IF c.type = "LinearEquality" THEN total = c.rhs ELSE total <= c.rhs

\* C9: for every linear constraint of the domain and every design, row i of
\* the scipy constraint is satisfied exactly when experiment i satisfies
\* the original constraint.
C9_SatisfiedIffOriginal ==
    sout.kind = "list" =>
        \A k \in LinearResults :
            LET sc == sout.list[k]
                c == sdom.constraints[sc.src]
            IN \A i \in 0..(sn - 1) :
                 \A x \in Designs(i) :
                    ScipySatisfied(sc, x, i) <=> OriginalSatisfied(c, x, i)

HasUnknown == \E k \in DOMAIN sdom.constraints : ~IsKnown(sdom.constraints[k])

FirstUnknown ==
    CHOOSE k \in DOMAIN sdom.constraints :
        /\ ~IsKnown(sdom.constraints[k])
        /\ \A l \in 1..(k - 1) : IsKnown(sdom.constraints[l])

\* a nonlinear constraint without features stands before the first
\* constraint of no known type
FeaturelessBeforeUnknown ==
    \E l \in 1..(FirstUnknown - 1) :
        /\ sdom.constraints[l].type \in {"NonlinearEquality", "NonlinearInequality"}
        /\ ~sdom.constraints[l].hasFeatures

\* C10 as stated: a domain with a constraint of no known type makes the
\* call raise NotImplementedError, wherever the constraint stands and
\* whatever ignore_nchoosek is, and no list is returned.
C10_UnknownRaisesNotImplemented ==
    (sout.kind # "none" /\ HasUnknown) =>
        (sout.kind = "NotImplementedError" /\ sout.list = <<>>)

\* C10 amended: a domain with a constraint of no known type makes the call
\* raise and return no list; it raises NotImplementedError unless a nonlinear
\* constraint without features stands before that constraint, and then the
\* ValueError of ConstraintWrapper.
C10_UnknownRaises ==
    (sout.kind # "none" /\ HasUnknown) =>
        /\ sout.list = <<>>
        /\ IF FeaturelessBeforeUnknown
           THEN sout.kind = "ValueError"
           ELSE sout.kind = "NotImplementedError"

C10_Witness ==
    /\ sout.kind = "NotImplementedError"
    /\ FirstUnknown = 2
    /\ Len(sdom.constraints) >= 2
    /\ IsLinear(sdom.constraints[1])

(***************************************************************************)
(* get_formula_from_string.  A string is the sequence of its pieces: a     *)
(* blank <<" ">>, a plus sign <<"+">>, or a term (a key <<k>>, a product   *)
(* <<a, ":", b>>, a square <<"{", k, "**2", "}">>), so that " + " has      *)
(* length 3 as in the source.                                              *)
(***************************************************************************)
MaxKeys == 4       \* largest number of inputs of a domain given to the formula builder

AllKeys == <<"x1", "x2", "x3", "x4", "x5", "x6">>

\* position of a key in the lexicographic order of the keys
KeyRank(k) ==
    LET order == <<"c1">> \o AllKeys \o <<"z1">>
    IN CHOOSE i \in DOMAIN order : order[i] = k

\* the keys of S in the order Features.get gives them
SortedKeys(S) ==
    LET n == Cardinality(S)
    IN [i \in 1..n |->
            CHOOSE k \in S : Cardinality({l \in S : KeyRank(l) < KeyRank(k)}) = i - 1]

\* " + "
Separator == << <<" ">>, <<"+">>, <<" ">> >>

\* "".join([input.key + " + " for input in domain.inputs])
MainEffects(keys) ==
    Concat([i \in DOMAIN keys |-> << <<keys[i]>> >> \o Separator])

\* "".join(["{" + input.key + "**2} + " for input in domain.inputs])
Squares(keys) ==
    Concat([i \in DOMAIN keys |-> << <<"{", keys[i], "**2", "}">> >> \o Separator])

\* a loop that also pairs a variable with itself
InnerRange_inclusive(i) == 1..i

\* for j in range(i), with i counted from 1
InnerRange(i) == 1..(i - 1)

\* for i in range(len(domain.inputs)): for j in range(i):
\*     formula += get_keys()[j] + ":" + get_keys()[i] + " + "
Interactions(keys) ==
    Concat([i \in DOMAIN keys |->
        Concat([j \in InnerRange(i) |-> << <<keys[j], ":", keys[i]>> >> \o Separator])])

linear_formula(keys) == MainEffects(keys)

linear_and_quadratic_formula(keys) == MainEffects(keys) \o Squares(keys)

linear_and_interactions_formula(keys) == MainEffects(keys) \o Interactions(keys)

fully_quadratic_formula(keys) ==
    MainEffects(keys) \o Interactions(keys) \o Squares(keys)

Keywords == {"linear", "linear-and-quadratic", "linear-and-interactions", "fully-quadratic"}

\* the explicit formula strings given instead of a keyword
ExplicitFormulas == {"x1 + x2", "x1 + x2 + x1:x2 + x2:x1"}

Pieces(text) ==
    IF text = "x1 + x2"
    THEN << <<"x1">> >> \o Separator \o << <<"x2">> >>
    ELSE << <<"x1">> >> \o Separator \o << <<"x2">> >> \o Separator
            \o << <<"x1", ":", "x2">> >> \o Separator \o << <<"x2", ":", "x1">> >>

\* formula[:-3]
DropLastThree(text) ==
    IF Len(text) <= 3 THEN <<>> ELSE SubSeq(text, 1, Len(text) - 3)

\* a product is the same term whatever the order of its factors
Canonical(term) ==
    IF Len(term) = 3 /\ term[2] = ":"
    THEN IF term[1] = term[3] THEN <<term[1]>>
         ELSE IF KeyRank(term[1]) < KeyRank(term[3]) THEN term
         ELSE <<term[3], ":", term[1]>>
    ELSE term

RECURSIVE Dedup(_, _)
Dedup(terms, seen) ==
    IF terms = <<>> THEN <<>>
    ELSE IF Head(terms) \in seen THEN Dedup(Tail(terms), seen)
    ELSE <<Head(terms)>> \o Dedup(Tail(terms), seen \cup {Head(terms)})

\* Formula(text): the terms between the plus signs, the intercept first,
\* every term once; a text that does not alternate terms and plus signs
\* does not parse
Formula(text) ==
    LET toks == SelectSeq(text, LAMBDA t : t # <<" ">>)
        wellFormed ==
            \/ toks = <<>>
            \/ /\ Len(toks) % 2 = 1
               /\ \A i \in DOMAIN toks : (toks[i] = <<"+">>) <=> (i % 2 = 0)
        written == SelectSeq(toks, LAMBDA t : t # <<"+">>)
    IN IF ~wellFormed
       THEN [kind |-> "FormulaSyntaxError", written |-> <<>>, terms |-> <<>>]
       ELSE [kind |-> "Formula", written |-> written,
             terms |-> Dedup(<< <<"1">> >> \o [i \in DOMAIN written |-> Canonical(written[i])], {})]

\* built: model_type is an already built Formula object (of that text).
\* recursion_limit is sys.getrecursionlimit() before the call; the result
\* carries the limit the call leaves behind.
get_formula_from_string(model_type, built, hasDomain, keys, recursion_limit) ==
    LET leaving(outcome, limit) ==
            [kind |-> outcome.kind, written |-> outcome.written, terms |-> outcome.terms,
             recursion_limit |-> limit]
    IN IF built THEN leaving(Formula(Pieces(model_type)), 2000)
       ELSE IF model_type \in Keywords /\ ~hasDomain
       THEN leaving([kind |-> "AssertionError", written |-> <<>>, terms |-> <<>>], 2000)
       ELSE LET formula ==
                   CASE model_type = "linear" -> linear_formula(keys)
                     [] model_type = "linear-and-quadratic" -> linear_and_quadratic_formula(keys)
                     [] model_type = "linear-and-interactions" -> linear_and_interactions_formula(keys)
                     [] model_type = "fully-quadratic" -> fully_quadratic_formula(keys)
                     [] OTHER -> Pieces(model_type) \o << <<" ">>, <<" ">>, <<" ">> >>
                parsed == Formula(DropLastThree(formula))
            IN leaving(parsed, IF parsed.kind = "Formula" THEN recursion_limit ELSE 2000)

CallGetFormula ==
    /\ call.fn = "get_formula_from_string"
    /\ ret.kind = "none"
    /\ ret' = get_formula_from_string(call.model_type, call.built, call.hasDomain, call.keys,
                                       call.recursion_limit)
    /\ UNCHANGED call
    /\ UNCHANGED <<samplerVars, boundsVars, scipyVars>>

InitFormula ==
    /\ IdleSampler
    /\ IdleBounds
    /\ IdleScipy
    /\ \E S \in SUBSET Range(SubSeq(AllKeys, 1, MaxKeys)) :
       \E m \in Keywords \cup ExplicitFormulas :
       \E d, built \in BOOLEAN :
       \E recursion_limit \in {1000, 2000, 3000} :
            /\ S # {}
            /\ (m \in ExplicitFormulas => {"x1", "x2"} \subseteq S)
            /\ (built => m \in ExplicitFormulas)
            /\ call = [fn |-> "get_formula_from_string", model_type |-> m, built |-> built,
                       hasDomain |-> d, keys |-> SortedKeys(S),
                       recursion_limit |-> recursion_limit]
    /\ ret = [kind |-> "none"]

SpecFormula == InitFormula /\ [][CallGetFormula]_vars

(***************************************************************************)
(* Claims about the formula builder                                        *)
(***************************************************************************)
FormulaReturned ==
    /\ call.fn = "get_formula_from_string"
    /\ ret.kind # "none"
    /\ call.model_type \in Keywords
    /\ call.hasDomain

MainTerms == {<<k>> : k \in Range(call.keys)}

SquareTerms == {<<"{", k, "**2", "}">> : k \in Range(call.keys)}

PairTerms ==
    {<<a, ":", b>> : a, b \in Range(call.keys)} \cap
    {t \in Seq(Range(call.keys) \cup {":"}) : Len(t) = 3 /\ KeyRank(t[1]) < KeyRank(t[3])}

ExpectedTerms ==
    {<<"1">>} \cup MainTerms \cup
    (IF call.model_type \in {"linear-and-quadratic", "fully-quadratic"}
     THEN SquareTerms ELSE {}) \cup
    (IF call.model_type \in {"linear-and-interactions", "fully-quadratic"}
     THEN PairTerms ELSE {})

ExpectedCount ==
    LET n == Len(call.keys)
    IN CASE call.model_type = "linear" -> 1 + n
         [] call.model_type = "linear-and-quadratic" -> 1 + 2 * n
         [] call.model_type = "linear-and-interactions" -> 1 + n + (n * (n - 1)) \div 2
         [] OTHER -> 1 + 2 * n + (n * (n - 1)) \div 2

\* C11: for each keyword the formula holds, besides the intercept, exactly
\* the main effects, the squares and the pairs the keyword stands for; no
\* term is written twice and none is missing, so the formula has 1+n,
\* 1+2n, 1+n+n(n-1)/2 or 1+2n+n(n-1)/2 terms.
C11_KeywordTerms ==
    FormulaReturned =>
        /\ ret.kind = "Formula"
        /\ Range(ret.terms) = ExpectedTerms
        /\ Len(ret.terms) = ExpectedCount
        /\ Len(ret.written) = ExpectedCount - 1
        /\ \A i, j \in DOMAIN ret.written :
                i # j => Canonical(ret.written[i]) # Canonical(ret.written[j])

C11_Witness ==
    /\ FormulaReturned
    /\ call.model_type = "fully-quadratic"
    /\ Len(call.keys) = 3
    /\ Len(ret.terms) = 10

(***************************************************************************)
(* ConstraintWrapper.jacobian.  An entry of the matrix is <<"d", i, f>>,   *)
(* the partial derivative with respect to feature f at experiment i        *)
(* (counted from 0), or <<"zero", 0, "">>.                                 *)
(***************************************************************************)
\* the binary search of np.searchsorted (side = "left") for one key between
\* min_idx and max_idx; indices count from 0
RECURSIVE BinarySearch(_, _, _, _)
BinarySearch(arr, key, min_idx, max_idx) ==
    IF min_idx < max_idx
    THEN LET mid_idx == min_idx + (max_idx - min_idx) \div 2
         IN IF KeyRank(arr[mid_idx + 1]) < KeyRank(key)
            THEN BinarySearch(arr, key, mid_idx + 1, max_idx)
            ELSE BinarySearch(arr, key, min_idx, mid_idx)
    ELSE min_idx

\* np.searchsorted(arr, keys): the search for a key starts from the bounds
\* the previous key left, widened on the side the new key lies
RECURSIVE SearchFrom(_, _, _, _, _)
SearchFrom(arr, keys, k, min_idx, max_idx) ==
    IF k > Len(keys) THEN <<>>
    ELSE LET bigger == k > 1 /\ KeyRank(keys[k - 1]) < KeyRank(keys[k])
             lo == IF bigger THEN min_idx ELSE 0
             hi == IF bigger THEN Len(arr)
                   ELSE IF max_idx < Len(arr) THEN max_idx + 1 ELSE Len(arr)
             found == BinarySearch(arr, keys[k], lo, hi)
         IN <<found>> \o SearchFrom(arr, keys, k + 1, found, found)

searchsorted(arr, keys) == SearchFrom(arr, keys, 1, 0, Len(arr))

\* ConstraintWrapper.__init__: np.searchsorted(self.names, self.constraint.features)
constraint_feature_indices(dom, features) == searchsorted(get_keys(dom), features)

\* ConstraintWrapper.jacobian: jacobian[rows, cols] = gradient_compressed.flatten(),
\* the gradient holding one column per feature, in the order of the features
jacobian(dom, features, n_experiments) ==
    LET D == Len(dom.inputs)
        ind == constraint_feature_indices(dom, features)
        col(i, f) == D * i + ind[f]
        writers(i, c) == {f \in DOMAIN features : col(i, f) = c}
    IN IF \E i \in 0..(n_experiments - 1) : \E f \in DOMAIN features :
              col(i, f) >= D * n_experiments
       THEN [kind |-> "IndexError", jacobian |-> <<>>]
       ELSE [kind |-> "matrix",
             jacobian |->
                [r \in 1..n_experiments |->
                    [c \in 1..(D * n_experiments) |->
                        IF writers(r - 1, c - 1) = {}
                        THEN <<"zero", 0, "">>
                        ELSE LET f == CHOOSE g \in writers(r - 1, c - 1) :
                                        \A h \in writers(r - 1, c - 1) : h <= g
                             IN <<"d", r - 1, features[f]>>]]]

CallJacobian ==
    /\ call.fn = "jacobian"
    /\ ret.kind = "none"
    /\ ret' = jacobian(call.domain, call.features, call.n_experiments)
    /\ UNCHANGED call
    /\ UNCHANGED <<samplerVars, boundsVars, scipyVars>>

\* domains of one to three continuous inputs and at most one categorical
\* input, whose key sorts before or after theirs; the constraint is on
\* continuous inputs, named in any order
InitJacobian ==
    /\ IdleSampler
    /\ IdleBounds
    /\ IdleScipy
    /\ \E S \in SUBSET {"x1", "x2", "x3"} :
       \E others \in {<<>>, <<CategoricalInput("c1")>>, <<CategoricalInput("z1")>>} :
       \E m \in 1..Cardinality(S) :
       \E features \in InjSeqs(S, m) :
       \E n \in 1..MaxExpS :
            /\ S # {}
            /\ call = [fn |-> "jacobian",
                       domain |-> Domain([i \in 1..Cardinality(S) |->
                                            ContinuousInput(SortedKeys(S)[i], 0, 1)] \o others, <<>>),
                       features |-> features, n_experiments |-> n]
    /\ ret = [kind |-> "none"]

SpecJacobian == InitJacobian /\ [][CallJacobian]_vars

\* C12: the jacobian is an n_experiments x (D * n_experiments) matrix whose
\* entry [i, i*D + p(f)] is the partial derivative with respect to f at
\* experiment i, p(f) being the position of f in get_keys(), for every
\* feature f of the constraint, and whose other entries are zero.
C12_JacobianPlacement ==
    (call.fn = "jacobian" /\ ret.kind # "none") =>
        LET D == Len(call.domain.inputs)
            n == call.n_experiments
            p(key) == IndexOfKey(call.domain, key) - 1
        IN /\ ret.kind = "matrix"
           /\ Len(ret.jacobian) = n
           /\ \A i \in 0..(n - 1) :
                /\ Len(ret.jacobian[i + 1]) = D * n
                /\ \A c \in 0..(D * n - 1) :
                     ret.jacobian[i + 1][c + 1] =
                        IF \E f \in DOMAIN call.features : c = i * D + p(call.features[f])
                        THEN <<"d", i,
                               call.features[CHOOSE f \in DOMAIN call.features :
                                                c = i * D + p(call.features[f])]>>
                        ELSE <<"zero", 0, "">>

(***************************************************************************)
(* discrete_to_relaxable_domain_mapper.  An input is a record with its     *)
(* key, kind, categories, allowed flags and values; a category of the      *)
(* input a is <<a, j>>.                                                    *)
(***************************************************************************)
MaxCategories == 3 \* largest number of categories of a categorical input

\* generate_mixture_constraints(keys): one relaxed binary variable per key
\* and the constraint that they sum to one
generate_mixture_constraints(keys) ==
    [constraint |-> LinearEqualityConstraint(keys, [i \in DOMAIN keys |-> 1], 1),
     group_vars |-> [i \in DOMAIN keys |->
                        [key |-> keys[i], kind |-> "relaxable_binary",
                         categories |-> <<>>, allowed |-> <<>>, values |-> <<>>]]]

\* current_group_keys = list(c_input.categories)
group_keys(c_input) == c_input.categories

discrete_to_relaxable_domain_mapper(domain) ==
    LET kept_inputs == SelectSeq(domain.inputs,
                                 LAMBDA f : f.kind \notin {"categorical", "discrete"})
        discrete_inputs == SelectSeq(domain.inputs, LAMBDA f : f.kind = "discrete")
        categorical_inputs == SelectSeq(domain.inputs, LAMBDA f : f.kind = "categorical")
        relaxable_discrete_inputs ==
            [i \in DOMAIN discrete_inputs |->
                [discrete_inputs[i] EXCEPT !.kind = "relaxable_discrete"]]
        mixture == [i \in DOMAIN categorical_inputs |->
                        generate_mixture_constraints(group_keys(categorical_inputs[i]))]
        categorical_groups == [i \in DOMAIN mixture |-> mixture[i].group_vars]
        new_constraints == [i \in DOMAIN mixture |-> mixture[i].constraint]
    IN [kind |-> "Domain",
        inputs |-> kept_inputs \o relaxable_discrete_inputs \o Concat(categorical_groups),
        constraints |-> domain.constraints \o new_constraints,
        categorical_groups |-> categorical_groups]

CallMapper ==
    /\ call.fn = "discrete_to_relaxable_domain_mapper"
    /\ ret.kind = "none"
    /\ ret' = discrete_to_relaxable_domain_mapper(call.domain)
    /\ UNCHANGED call
    /\ UNCHANGED <<samplerVars, boundsVars, scipyVars>>

\* domains of one or two categorical inputs (two or more categories each,
\* at least one of them allowed), with or without a continuous input, a
\* discrete input and a linear constraint
InitMapper ==
    LET input(key, kind) == [key |-> key, kind |-> kind, categories |-> <<>>,
                             allowed |-> <<>>, values |-> <<>>]
    IN /\ IdleSampler
       /\ IdleBounds
       /\ IdleScipy
       /\ \E m1 \in 2..MaxCategories, m2 \in {0} \cup (2..MaxCategories) :
          \E al1 \in [1..m1 -> BOOLEAN], al2 \in [1..m2 -> BOOLEAN] :
          \E continuous \in {<<>>, <<input("x1", "continuous")>>} :
          \E discrete \in {<<>>, <<[input("d1", "discrete") EXCEPT !.values = <<1, 2>>]>>} :
          \E constraints \in {<<>>, <<LinearInequalityConstraint(<<"x1">>, <<1>>, 1)>>} :
                /\ \E j \in 1..m1 : al1[j]
                /\ m2 > 0 => \E j \in 1..m2 : al2[j]
                /\ constraints # <<>> => continuous # <<>>
                /\ call = [fn |-> "discrete_to_relaxable_domain_mapper",
                           domain |->
                             [inputs |-> continuous \o discrete \o
                                <<[input("a", "categorical") EXCEPT
                                        !.categories = [j \in 1..m1 |-> <<"a", j>>],
                                        !.allowed = al1]>> \o
                                (IF m2 = 0 THEN <<>>
                                 ELSE <<[input("b", "categorical") EXCEPT
                                        !.categories = [j \in 1..m2 |-> <<"b", j>>],
                                        !.allowed = al2]>>),
                              constraints |-> constraints]]
       /\ ret = [kind |-> "none"]

SpecMapper == InitMapper /\ [][CallMapper]_vars

\* C13: every categorical input with k allowed categories becomes exactly k
\* relaxed binary variables, one per allowed category and none for a
\* disallowed one, with exactly one mixture constraint and exactly one
\* categorical group for the input.
C13_OneVariablePerAllowedCategory ==
    (call.fn = "discrete_to_relaxable_domain_mapper" /\ ret.kind # "none") =>
        LET categorical == SelectSeq(call.domain.inputs, LAMBDA f : f.kind = "categorical")
            allowedOf(c) == {c.categories[j] : j \in {l \in DOMAIN c.categories : c.allowed[l]}}
            binaries == SelectSeq(ret.inputs, LAMBDA f : f.kind = "relaxable_binary")
        IN /\ ret.kind = "Domain"
           /\ Len(ret.categorical_groups) = Len(categorical)
           /\ Len(ret.constraints) = Len(call.domain.constraints) + Len(categorical)
           /\ \A i \in DOMAIN categorical :
                LET c == categorical[i]
                    own == {j \in DOMAIN binaries : binaries[j].key \in Range(c.categories)}
                IN /\ Cardinality(own) = Cardinality(allowedOf(c))
                   /\ {binaries[j].key : j \in own} = allowedOf(c)
                   /\ {ret.categorical_groups[i][j].key :
                            j \in DOMAIN ret.categorical_groups[i]} = allowedOf(c)
                   /\ Cardinality({k \in DOMAIN ret.constraints :
                            Range(ret.constraints[k].features) \subseteq Range(c.categories)}) = 1

(***************************************************************************)
(* NChooseKGroup_with_quantity.  A key is the sequence of its pieces, "_"  *)
(* being a piece of its own: "a_b" is <<"a", "_", "b">>.                   *)
(***************************************************************************)
MaxGroup == 2      \* largest number of keys and of quantities of a group

\* itertools.combinations(keys, i): the index tuples in lexicographic order
combinations(keys, i) ==
    LET n == Len(keys)
        tuples == {s \in [1..i -> 1..n] : \A a, b \in 1..i : a < b => s[a] < s[b]}
        RECURSIVE weight(_, _)
        weight(s, j) == IF j = 0 THEN 0 ELSE weight(s, j - 1) * (n + 1) + s[j]
        ordered == [r \in 1..Cardinality(tuples) |->
                        CHOOSE s \in tuples :
                            Cardinality({t \in tuples : weight(t, i) < weight(s, i)}) = r - 1]
    IN [r \in DOMAIN ordered |-> [j \in 1..i |-> keys[ordered[r][j]]]]

\* only "pick_none" is refused as a key
ReservedKey_pick_none_only(keys) ==
    \E i \in DOMAIN keys : keys[i] = <<"pick", "_", "none">>

\* "pick_none" in keys, or True in ["_" in k for k in keys]
ReservedKey(keys) ==
    \/ \E i \in DOMAIN keys : keys[i] = <<"pick", "_", "none">>
    \/ \E i \in DOMAIN keys : "_" \in Range(keys[i])

\* the outcome, the keys argument as the call leaves it, and whether a
\* variable or constraint had been created
NChooseKGroup_with_quantity(unique_group_identifier, keys, pick_at_least, pick_at_most, quantity_limit, quantity_if_picked, quantity_is_equality) ==
    LET raised(created, left) ==
            [kind |-> "ValueError", keys |-> left, created |-> created,
             categories |-> <<>>, quantity_var |-> <<>>, constraints |-> <<>>]
        join(w) == Concat([j \in DOMAIN w |-> IF j = 1 THEN w[j] ELSE <<"_">> \o w[j]])
        combined_keys_as_tuple ==
            Concat([i \in 1..(pick_at_most - 1) |-> combinations(keys, i + 1)])
        combined_keys == [r \in DOMAIN combined_keys_as_tuple |-> join(combined_keys_as_tuple[r])]
        quantity_key(k) == <<unique_group_identifier, "_">> \o k \o <<"_", "quantity">>
        quantity_var == [i \in DOMAIN keys |->
                            [key |-> quantity_key(keys[i]), lo |-> 0, hi |-> quantity_if_picked[i][2]]]
        all_quantity_features ==
            [i \in DOMAIN keys |->
                LET hits == SelectSeq([r \in DOMAIN combined_keys |-> r],
                                      LAMBDA r : keys[i] \in Range(combined_keys_as_tuple[r]))
                IN [j \in DOMAIN hits |-> combined_keys[hits[j]]]]
        withCombi == SelectSeq([i \in DOMAIN keys |-> i],
                               LAMBDA i : Len(all_quantity_features[i]) > 1)
        quantity_constraints_lb ==
            [j \in DOMAIN withCombi |->
                LET i == withCombi[j] IN
                LinearInequalityConstraint(
                    <<quantity_key(keys[i])>> \o all_quantity_features[i],
                    <<-1>> \o [c \in DOMAIN all_quantity_features[i] |-> quantity_if_picked[i][1]],
                    0)]
        quantity_constraints_ub ==
            [j \in DOMAIN withCombi |->
                LET i == withCombi[j] IN
                LinearInequalityConstraint(
                    <<quantity_key(keys[i])>> \o all_quantity_features[i],
                    <<1>> \o [c \in DOMAIN all_quantity_features[i] |-> 0 - quantity_if_picked[i][2]],
                    0)]
        extended == keys \o combined_keys
        prefixed == [i \in DOMAIN extended |-> <<unique_group_identifier, "_">> \o extended[i]]
        categories == IF pick_at_least = 0
                      THEN Append(prefixed, <<unique_group_identifier, "_", "pick", "_", "none">>)
                      ELSE prefixed
        max_quantity_constraint ==
            IF quantity_is_equality
            THEN LinearEqualityConstraint([i \in DOMAIN quantity_var |-> quantity_var[i].key],
                                          [i \in DOMAIN quantity_var |-> 1], quantity_limit)
            ELSE LinearInequalityConstraint([i \in DOMAIN quantity_var |-> quantity_var[i].key],
                                            [i \in DOMAIN quantity_var |-> 1], quantity_limit)
    IN IF Len(keys) # Len(quantity_if_picked) THEN raised(FALSE, keys)
       ELSE IF pick_at_least > pick_at_most THEN raised(FALSE, keys)
       ELSE IF pick_at_least < 0 THEN raised(FALSE, keys)
       ELSE IF pick_at_most > Len(keys) THEN raised(FALSE, keys)
       ELSE IF \E i \in DOMAIN quantity_if_picked : 0 \in Range(quantity_if_picked[i])
            THEN raised(FALSE, keys)
       ELSE IF ReservedKey(keys) THEN raised(FALSE, keys)
       \* CategoricalInput: at least two categories, no category twice
       ELSE IF Len(categories) < 2 \/ Cardinality(Range(categories)) # Len(categories)
            THEN raised(TRUE, extended)
       ELSE [kind |-> "return", keys |-> extended, created |-> TRUE,
             categories |-> categories, quantity_var |-> quantity_var,
             constraints |-> <<max_quantity_constraint>> \o quantity_constraints_lb
                                \o quantity_constraints_ub]

CallNChooseKGroup ==
    /\ call.fn = "NChooseKGroup_with_quantity"
    /\ ret.kind = "none"
    /\ ret' = NChooseKGroup_with_quantity("g", call.keys, call.pick_at_least, call.pick_at_most,
                                          1, call.quantity_if_picked, call.quantity_is_equality)
    /\ UNCHANGED call
    /\ UNCHANGED <<samplerVars, boundsVars, scipyVars>>

InitGroup ==
    /\ IdleSampler
    /\ IdleBounds
    /\ IdleScipy
    /\ \E lk, lq \in 0..MaxGroup :
       \E keys \in [1..lk -> {<<"a">>, <<"b">>, <<"a", "_", "b">>, <<"pick", "_", "none">>}] :
       \E quantity_if_picked \in [1..lq -> {<<1, 2>>, <<0, 2>>}] :
       \E pick_at_least, pick_at_most \in (0 - 1)..(MaxGroup + 1) :
       \E quantity_is_equality \in BOOLEAN :
            call = [fn |-> "NChooseKGroup_with_quantity", keys |-> keys,
                    pick_at_least |-> pick_at_least, pick_at_most |-> pick_at_most,
                    quantity_if_picked |-> quantity_if_picked,
                    quantity_is_equality |-> quantity_is_equality]
    /\ ret = [kind |-> "none"]

SpecGroup == InitGroup /\ [][CallNChooseKGroup]_vars

GroupReturned == call.fn = "NChooseKGroup_with_quantity" /\ ret.kind # "none"

\* one of the configuration errors the claim lists
GroupMisconfigured ==
    \/ call.pick_at_least > call.pick_at_most
    \/ call.pick_at_least < 0
    \/ call.pick_at_most > Len(call.keys)
    \/ \E i \in DOMAIN call.keys : call.keys[i] = <<"pick", "_", "none">>
    \/ \E i \in DOMAIN call.keys : \E j \in DOMAIN call.keys[i] : call.keys[i][j] = "_"

\* the length or quantity error
GroupQuantityError ==
    \/ Len(call.keys) # Len(call.quantity_if_picked)
    \/ \E i \in DOMAIN call.quantity_if_picked :
            call.quantity_if_picked[i][1] = 0 \/ call.quantity_if_picked[i][2] = 0

\* the group would have a single category, or the same category twice
GroupDegenerate ==
    \/ \E i, j \in DOMAIN call.keys : i # j /\ call.keys[i] = call.keys[j]
    \/ Len(call.keys) = 0
    \/ Len(call.keys) = 1 /\ call.pick_at_least = 1

\* C14 as stated: each listed configuration error raises ValueError before
\* anything is created and with the arguments untouched, and a call with
\* none of them (and no length or quantity error) returns normally.
C14_RaisesOrReturns ==
    GroupReturned =>
        /\ GroupMisconfigured =>
                (ret.kind = "ValueError" /\ ~ret.created /\ ret.keys = call.keys)
        /\ (~GroupMisconfigured /\ ~GroupQuantityError) => ret.kind = "return"

\* C14 amended: each listed configuration error raises ValueError before
\* anything is created and with the arguments untouched; a call with none
\* of them (and no length or quantity error) returns normally unless two
\* keys are equal or the group has a single category, and then ValueError
\* is raised when the categorical input is built.
C14_RaisesOrReturnsUnlessDegenerate ==
    GroupReturned =>
        /\ GroupMisconfigured =>
                (ret.kind = "ValueError" /\ ~ret.created /\ ret.keys = call.keys)
        /\ (~GroupMisconfigured /\ ~GroupQuantityError) =>
                IF GroupDegenerate THEN ret.kind = "ValueError" ELSE ret.kind = "return"

C14_Witness ==
    /\ GroupReturned
    /\ ret.kind = "return"
    /\ call.pick_at_most = 2
    /\ Len(ret.categories) = 4
    /\ Len(ret.constraints) = 1

(***************************************************************************)
(* Pseudo-fixed features of the polytope sampler                           *)
(***************************************************************************)
\* the domain the row was sampled on: the asked domain, or its clone with
\* the NChooseK constraints dropped and the row's unused features fixed
RowDomain(row) ==
    IF HasNChooseK
    THEN FixUnused([heap[1] EXCEPT !.constraints = ExcludeNChooseK(heap[1])], row.src)
    ELSE heap[1]

\* C15: a linear equality with exactly one non-fixed feature x of
\* coefficient c makes every returned row carry in column x the value
\* (rhs - sum of coefficient * fixed_value over its fixed features) / c.
C15_PseudoFixedValue ==
    pc = "done" =>
        \A r \in DOMAIN result :
            LET dom == RowDomain(result[r]) IN
            \A k \in DOMAIN dom.constraints :
                LET c == dom.constraints[k]
                    free == {i \in DOMAIN c.features : ~is_fixed(get_by_key(dom, c.features[i]))}
                    fixd == SetToSeq(DOMAIN c.features \ free)
                    fixedSum == SumSeq([j \in DOMAIN fixd |->
                                    c.coefficients[fixd[j]]
                                        * fixed_value(get_by_key(dom, c.features[fixd[j]]))])
                IN (c.type = "LinearEquality" /\ Cardinality(free) = 1) =>
                    LET i == CHOOSE f \in free : TRUE
                        cell == result[r].cells[c.features[i]]
                    IN /\ cell[1] = "fix"
                       /\ cell[2] * c.coefficients[i] = (c.rhs - fixedSum) * cell[3]

(***************************************************************************)
(* Warnings of PolytopeSampler._sample_from_polytope.  The hit-and-run     *)
(* sampler is outside the repository: its candidates are pairwise distinct *)
(* or not, and a single candidate is always distinct.                      *)
(***************************************************************************)
\* only the inputs fixed by their bounds count
NothingToSample_bounds(dom) ==
    \A k \in ContinuousKeys(dom) : is_fixed(get_by_key(dom, k))

\* len(lower) == 0: no continuous input is left out of fixed_features
NothingToSample(dom) == free_continuals(dom) = {}

\* the warnings issued, whether the hit-and-run sampler was called, the rows
sample_outcome(dom, n, h, distinct) ==
    LET rows == _sample_from_polytope(dom, n, h, {}) IN
    IF Len(dom.constraints) = 0
    THEN [kind |-> "return", warnings |-> <<>>, hit_and_run |-> FALSE, rows |-> rows]
    ELSE IF NothingToSample(dom)
    THEN [kind |-> "return",
          warnings |-> <<"Nothing to sample, all is fixed. Just the fixed set is returned.">>,
          hit_and_run |-> FALSE, rows |-> rows]
    ELSE [kind |-> "return",
          warnings |-> IF ~distinct /\ n > 1
                       THEN <<"Generated candidates are not unique!">> ELSE <<>>,
          hit_and_run |-> TRUE, rows |-> rows]

CallSampleFromPolytope ==
    /\ call.fn = "_sample_from_polytope"
    /\ ret.kind = "none"
    /\ \E h \in [1..SeedCalls(call.domain) -> SeedVals] :
       \E distinct \in (IF call.n = 1 THEN {TRUE} ELSE BOOLEAN) :
            LET outcome == sample_outcome(call.domain, call.n, h, distinct) IN
            ret' = [outcome EXCEPT !.kind = IF ~outcome.hit_and_run THEN "fixed"
                                            ELSE IF distinct THEN "distinct" ELSE "repeated"]
    /\ UNCHANGED call
    /\ UNCHANGED <<samplerVars, boundsVars, scipyVars>>

InitSample ==
    /\ IdleSampler
    /\ IdleBounds
    /\ IdleScipy
    /\ \E b1, b2 \in {<<0, 1>>, <<2, 2>>} :
       \E categorical \in BOOLEAN :
       \E cs \in { <<>>,
                   <<LinearEqualityConstraint(<<"x1", "x2">>, <<1, 1>>, 1)>>,
                   <<LinearEqualityConstraint(<<"x1">>, <<2>>, 1)>>,
                   <<LinearEqualityConstraint(<<"x1">>, <<2>>, 1),
                     LinearEqualityConstraint(<<"x2">>, <<1>>, 1)>>,
                   <<LinearInequalityConstraint(<<"x1", "x2">>, <<1, 1>>, 1)>> } :
       \E n \in 1..MaxN :
            call = [fn |-> "_sample_from_polytope",
                    domain |-> Domain(<<ContinuousInput("x1", b1[1], b1[2]),
                                        ContinuousInput("x2", b2[1], b2[2])>>
                                      \o (IF categorical THEN <<CategoricalInput("z1")>> ELSE <<>>),
                                      cs),
                    n |-> n]
    /\ ret = [kind |-> "none"]

SpecSample == InitSample /\ [][CallSampleFromPolytope]_vars

SampleReturned == call.fn = "_sample_from_polytope" /\ ret.kind # "none"

\* x is the only non-fixed feature of some linear equality
PseudoFixed(dom, x) ==
    \E k \in DOMAIN dom.constraints :
        LET c == dom.constraints[k] IN
        /\ c.type = "LinearEquality"
        /\ {f \in Range(c.features) : ~is_fixed(get_by_key(dom, f))} = {x}

AllFixed(dom) ==
    \A x \in ContinuousKeys(dom) : is_fixed(get_by_key(dom, x)) \/ PseudoFixed(dom, x)

\* n rows, every cell set, every continuous input fixed by its bounds at
\* its fixed value and every pseudo-fixed one at a number
FixedSetReturned ==
    /\ Len(ret.rows) = call.n
    /\ \A r \in DOMAIN ret.rows :
        /\ DOMAIN ret.rows[r].cells = Range(get_keys(call.domain))
        /\ \A x \in DOMAIN ret.rows[r].cells :
            /\ ret.rows[r].cells[x][1] # "nan"
            /\ x \in ContinuousKeys(call.domain) => ret.rows[r].cells[x][1] = "fix"
            /\ (x \in ContinuousKeys(call.domain) /\ is_fixed(get_by_key(call.domain, x))) =>
                    ret.rows[r].cells[x] = <<"fix", fixed_value(get_by_key(call.domain, x)), 1>>

RepeatsReported ==
    (ret.hit_and_run /\ ret.kind = "repeated" /\ call.n > 1) =>
        (Len(ret.warnings) = 1 /\ Len(ret.rows) = call.n)

\* C16 as stated: whenever every continuous input is fixed or pseudo-fixed
\* the call warns, does not run the hit-and-run sampler and returns n rows
\* of fixed values with no cell unset; candidates that repeat (n > 1) give
\* a warning and the n rows.
C16_DegenerateWarns ==
    SampleReturned =>
        /\ AllFixed(call.domain) =>
                (Len(ret.warnings) = 1 /\ ~ret.hit_and_run /\ FixedSetReturned)
        /\ RepeatsReported

\* C16 amended: on a domain with at least one constraint, whenever every
\* continuous input is fixed or pseudo-fixed the call warns, does not run
\* the hit-and-run sampler and returns n rows with no cell unset; on a
\* domain without constraints it returns them without a warning;
\* candidates that repeat (n > 1) give a warning and the n rows.
C16_DegenerateWarnsIfConstrained ==
    SampleReturned =>
        /\ AllFixed(call.domain) =>
                /\ Len(ret.warnings) = (IF Len(call.domain.constraints) = 0 THEN 0 ELSE 1)
                /\ ~ret.hit_and_run
                /\ FixedSetReturned
        /\ RepeatsReported

C16_Witness ==
    /\ SampleReturned
    /\ call.n = 2
    /\ Len(call.domain.inputs) = 3
    /\ ~is_fixed(call.domain.inputs[1])
    /\ ~is_fixed(call.domain.inputs[2])
    /\ AllFixed(call.domain)
    /\ Len(ret.warnings) = 1
    /\ ~ret.hit_and_run

(***************************************************************************)
(* DiscreteInput: the values validator                                     *)
(***************************************************************************)
MaxValues == 3     \* longest list of values; the values are 0..MaxValues

\* no list counts as having repeats
HasRepeats_never(values) == FALSE

\* len(values) != len(set(values))
HasRepeats(values) == Len(values) # Cardinality(Range(values))

\* DiscreteInput(key=key, values=values)
DiscreteInput(key, values) ==
    LET RECURSIVE insert(_, _)
        insert(v, s) == IF s = <<>> THEN <<v>>
                        ELSE IF v < Head(s) THEN <<v>> \o s
                        ELSE <<Head(s)>> \o insert(v, Tail(s))
        RECURSIVE sorted(_)
        sorted(s) == IF s = <<>> THEN <<>> ELSE insert(s[Len(s)], sorted(SubSeq(s, 1, Len(s) - 1)))
    IN IF Len(values) < 1 THEN [kind |-> "ValidationError", key |-> key, values |-> <<>>]
       ELSE IF HasRepeats(values) THEN [kind |-> "ValueError", key |-> key, values |-> <<>>]
       ELSE [kind |-> "DiscreteInput", key |-> key, values |-> sorted(values)]

CallDiscreteInput ==
    /\ call.fn = "DiscreteInput"
    /\ ret.kind = "none"
    /\ ret' = DiscreteInput("d1", call.values)
    /\ UNCHANGED call
    /\ UNCHANGED <<samplerVars, boundsVars, scipyVars>>

InitDiscrete ==
    /\ IdleSampler
    /\ IdleBounds
    /\ IdleScipy
    /\ \E len \in 0..MaxValues :
       \E values \in [1..len -> 0..MaxValues] :
            call = [fn |-> "DiscreteInput", values |-> values]
    /\ ret = [kind |-> "none"]

SpecDiscrete == InitDiscrete /\ [][CallDiscreteInput]_vars

DiscreteBuilt == call.fn = "DiscreteInput" /\ ret.kind # "none" /\ Len(call.values) > 0

\* each distinct value of the list is held once, in ascending order
HoldsDistinctSorted ==
    /\ ret.kind = "DiscreteInput"
    /\ Range(ret.values) = Range(call.values)
    /\ \A i, j \in DOMAIN ret.values : i < j => ret.values[i] < ret.values[j]

\* C17 as stated: a DiscreteInput built from any non-empty list holds the
\* list de-duplicated and sorted ascending; repeated values are accepted.
C17_DedupSorted == DiscreteBuilt => HoldsDistinctSorted

\* C17 amended: a DiscreteInput built from a non-empty list of pairwise
\* distinct numbers holds the list sorted ascending; a list with a repeated
\* value is refused with ValueError.
C17_SortedOrRefused ==
    DiscreteBuilt =>
        IF \E i, j \in DOMAIN call.values : i # j /\ call.values[i] = call.values[j]
        THEN ret.kind = "ValueError"
        ELSE HoldsDistinctSorted /\ Len(ret.values) = Len(call.values)

C17_Witness ==
    /\ DiscreteBuilt
    /\ call.values = <<2, 0, 1>>
    /\ ret.values = <<0, 1, 2>>

(***************************************************************************)
(* DoEStrategy: the data model and ask.  The base class of the data model  *)
(* refuses a domain holding a constraint whose type is reported as not     *)
(* implemented; the optimizer behind ask returns one row per candidate.    *)
(***************************************************************************)
\* DoEStrategy.is_constraint_implemented
is_constraint_implemented(my_type) ==
    IF my_type \in {"NChooseK", "NonlinearEquality"} THEN FALSE ELSE TRUE

\* data_models.DoEStrategy(domain=domain, formula=formula)
DoEStrategy(domain, formula) ==
    IF \E k \in DOMAIN domain.constraints : ~is_constraint_implemented(domain.constraints[k].type)
    THEN [kind |-> "ValueError", domain |-> domain, formula |-> formula]
    ELSE [kind |-> "DoEStrategy", domain |-> domain, formula |-> formula]

\* DoEStrategy(data_model=data_model).ask(candidate_count)
ask(data_model, candidate_count) ==
    [kind |-> "candidates",
     rows |-> [i \in 1..candidate_count |->
                    [k \in Range(get_keys(data_model.domain)) |-> <<"opt", i, k>>]]]

CallDoEStrategy ==
    /\ call.fn = "DoEStrategy"
    /\ ret.kind = "none"
    /\ LET data_model == DoEStrategy(call.domain, call.formula) IN
       ret' = IF data_model.kind = "DoEStrategy"
              THEN ask(data_model, call.candidate_count)
              ELSE [kind |-> data_model.kind, rows |-> <<>>]
    /\ UNCHANGED call
    /\ UNCHANGED <<samplerVars, boundsVars, scipyVars>>

InitDoE ==
    /\ IdleSampler
    /\ IdleBounds
    /\ IdleScipy
    /\ \E cs \in ConstraintLists :
       \E candidate_count \in 1..MaxN :
            /\ \A k \in DOMAIN cs : cs[k].type # "Other" /\ cs[k].hasFeatures
            /\ call = [fn |-> "DoEStrategy", domain |-> Domain(UnitInputs, cs),
                       formula |-> "linear", candidate_count |-> candidate_count]
    /\ ret = [kind |-> "none"]

SpecDoE == InitDoE /\ [][CallDoEStrategy]_vars

\* C18: a DoEStrategy on a domain with an NChooseKConstraint over inputs
\* whose bounds contain 0 (its other constraints, if any, being linear) is
\* accepted, and ask(n) returns n rows with one column per input.
C18_NChooseKAccepted ==
    (/\ call.fn = "DoEStrategy"
     /\ ret.kind # "none"
     /\ \E k \in DOMAIN call.domain.constraints : call.domain.constraints[k].type = "NChooseK"
     /\ \A k \in DOMAIN call.domain.constraints :
            call.domain.constraints[k].type \in {"NChooseK", "LinearEquality", "LinearInequality"})
    => /\ ret.kind = "candidates"
       /\ Len(ret.rows) = call.candidate_count
       /\ \A i \in DOMAIN ret.rows : DOMAIN ret.rows[i] = Range(get_keys(call.domain))

(***************************************************************************)
(* Optimality criteria.  A model matrix X is a sequence of n_experiments   *)
(* rows of n_terms integers.  An eigenvalue of the 1 x 1 or 2 x 2 matrix   *)
(* X.T @ X is kept exact as <<t, D, s>>, the number (t + s * sqrt(D)) / 2. *)
(* A quotient is kept as a numerator and a positive denominator.           *)
(***************************************************************************)
MaxDelta == 1      \* delta is 0..MaxDelta

Transpose(A) == [j \in 1..Len(A[1]) |-> [i \in 1..Len(A) |-> A[i][j]]]

\* A @ B
MatMul(A, B) ==
    [i \in 1..Len(A) |-> [j \in 1..Len(B[1]) |->
        SumSeq([k \in 1..Len(B) |-> A[i][k] * B[k][j]])]]

\* A + B with numpy's broadcasting: a dimension of length 1 is stretched
BroadcastAdd(A, B) ==
    LET rows == IF Len(A) = 1 THEN Len(B) ELSE Len(A)
        cols == IF Len(A[1]) = 1 THEN Len(B[1]) ELSE Len(A[1])
        at(M, i, j) == M[IF Len(M) = 1 THEN 1 ELSE i][IF Len(M[1]) = 1 THEN 1 ELSE j]
    IN IF \/ (Len(A) # Len(B) /\ Len(A) # 1 /\ Len(B) # 1)
          \/ (Len(A[1]) # Len(B[1]) /\ Len(A[1]) # 1 /\ Len(B[1]) # 1)
       THEN [kind |-> "ValueError", matrix |-> <<>>]
       ELSE [kind |-> "matrix",
             matrix |-> [i \in 1..rows |-> [j \in 1..cols |-> at(A, i, j) + at(B, i, j)]]]

\* np.linalg.inv(M): the adjugate over the determinant, by cofactors
inv(M) ==
    LET skip(k, x) == IF k < x THEN k ELSE k + 1
        minor(A, r, c) ==
            [i \in 1..(Len(A) - 1) |-> [j \in 1..(Len(A) - 1) |-> A[skip(i, r)][skip(j, c)]]]
        RECURSIVE determinant(_)
        determinant(A) ==
            IF Len(A) = 1 THEN A[1][1]
            ELSE SumSeq([j \in 1..Len(A) |->
                    (IF j % 2 = 1 THEN 1 ELSE 0 - 1) * A[1][j] * determinant(minor(A, 1, j))])
    IN IF determinant(M) = 0 THEN [kind |-> "LinAlgError", adj |-> <<>>, det |-> 0]
       ELSE [kind |-> "matrix",
             adj |-> [i \in 1..Len(M) |-> [j \in 1..Len(M) |->
                        IF Len(M) = 1 THEN 1
                        ELSE (IF (i + j) % 2 = 0 THEN 1 ELSE 0 - 1) * determinant(minor(M, j, i))]],
             det |-> determinant(M)]

\* H = X @ inv(X.T @ X + delta * np.eye(len(X))) @ X.T; np.max(np.diag(H))
g_optimality(X, delta) ==
    LET failed(kind) == [kind |-> kind, num |-> 0, den |-> 1, eigenvalues |-> <<>>]
        eye == [i \in 1..Len(X) |-> [j \in 1..Len(X) |-> IF i = j THEN 1 ELSE 0]]
        regularised == BroadcastAdd(MatMul(Transpose(X), X),
                                    [i \in DOMAIN eye |-> [j \in DOMAIN eye |-> delta * eye[i][j]]])
    IN IF regularised.kind = "ValueError" THEN failed("ValueError")
       ELSE LET inverse == inv(regularised.matrix) IN
            IF inverse.kind = "LinAlgError" THEN failed("LinAlgError")
            ELSE IF Len(X[1]) # Len(inverse.adj) THEN failed("ValueError")
            ELSE LET H == MatMul(MatMul(X, inverse.adj), Transpose(X))
                     sign == IF inverse.det < 0 THEN 0 - 1 ELSE 1
                     diag == {sign * H[i][i] : i \in DOMAIN H}
                 IN [kind |-> "value", num |-> CHOOSE v \in diag : \A w \in diag : w <= v,
                     den |-> sign * inverse.det, eigenvalues |-> <<>>]

\* np.linalg.eigvalsh(A), ascending
eigvalsh(A) ==
    IF Len(A) = 1 THEN << <<2 * A[1][1], 0, 1>> >>
    ELSE LET t == A[1][1] + A[2][2]
             D == (A[1][1] - A[2][2]) * (A[1][1] - A[2][2]) + 4 * A[1][2] * A[2][1]
         IN << <<t, D, 0 - 1>>, <<t, D, 1>> >>

\* (t + s * sqrt(D)) / 2 = 0
IsZero(ev) ==
    IF ev[3] = 1 THEN ev[1] <= 0 /\ ev[2] = ev[1] * ev[1]
    ELSE ev[1] >= 0 /\ ev[2] = ev[1] * ev[1]

\* an eigenvalue of magnitude delta is kept as well
ExceedsDelta_or_equal(ev, delta) ==
    LET above(e, bound) ==
            LET d == 2 * bound - e[1] IN
            IF e[3] = 1 THEN d < 0 \/ e[2] > d * d ELSE d < 0 /\ d * d > e[2]
    IN ~above(<<0 - ev[1], ev[2], 0 - ev[3]>>, 0 - delta) \/ ~above(ev, 0 - delta)

\* np.abs(eigenvalue) > delta, where (t + s * sqrt(D)) / 2 > bound is
\* s * sqrt(D) > 2 * bound - t
ExceedsDelta(ev, delta) ==
    LET above(e, bound) ==
            LET d == 2 * bound - e[1] IN
            IF e[3] = 1 THEN d < 0 \/ e[2] > d * d ELSE d < 0 /\ d * d > e[2]
    IN above(ev, delta) \/ above(<<0 - ev[1], ev[2], 0 - ev[3]>>, delta)

\* the eigenvalues the logarithms are summed over
d_optimality(X, delta) ==
    LET eigenvalues == SelectSeq(eigvalsh(MatMul(Transpose(X), X)),
                                 LAMBDA ev : ExceedsDelta(ev, delta))
    IN [kind |-> IF \E i \in DOMAIN eigenvalues : IsZero(eigenvalues[i])
                 THEN "log(0)" ELSE "value",
        num |-> 0, den |-> 1, eigenvalues |-> eigenvalues]

\* the eigenvalues the reciprocals are summed over
a_optimality(X, delta) ==
    LET eigenvalues == SelectSeq(eigvalsh(MatMul(Transpose(X), X)),
                                 LAMBDA ev : ExceedsDelta(ev, delta))
    IN [kind |-> IF \E i \in DOMAIN eigenvalues : IsZero(eigenvalues[i])
                 THEN "divide by zero" ELSE "value",
        num |-> 0, den |-> 1, eigenvalues |-> eigenvalues]

CallGOptimality ==
    /\ call.fn = "g_optimality"
    /\ ret.kind = "none"
    /\ ret' = g_optimality(call.X, call.delta)
    /\ UNCHANGED call
    /\ UNCHANGED <<samplerVars, boundsVars, scipyVars>>

CallDOptimality ==
    /\ call.fn = "d_optimality"
    /\ ret.kind = "none"
    /\ ret' = d_optimality(call.X, call.delta)
    /\ UNCHANGED call
    /\ UNCHANGED <<samplerVars, boundsVars, scipyVars>>

CallAOptimality ==
    /\ call.fn = "a_optimality"
    /\ ret.kind = "none"
    /\ ret' = a_optimality(call.X, call.delta)
    /\ UNCHANGED call
    /\ UNCHANGED <<samplerVars, boundsVars, scipyVars>>

InitOptimality ==
    /\ IdleSampler
    /\ IdleBounds
    /\ IdleScipy
    /\ \E n_experiments \in 1..MaxExpS :
       \E n_terms \in 1..2 :
       \E X \in [1..n_experiments -> [1..n_terms -> 0..MaxX]] :
       \E delta \in 0..MaxDelta :
       \E fn \in {"g_optimality", "d_optimality", "a_optimality"} :
            call = [fn |-> fn, X |-> X, delta |-> delta]
    /\ ret = [kind |-> "none"]

NextOptimality == CallGOptimality \/ CallDOptimality \/ CallAOptimality

SpecOptimality == InitOptimality /\ [][NextOptimality]_vars

\* C19: for delta > 0 and every model matrix X, g_optimality returns the
\* largest diagonal entry of X (X^T X + delta * I)^-1 X^T with I the
\* n_terms x n_terms identity, also when n_experiments differs from n_terms.
C19_GOptimalityDefined ==
    (call.fn = "g_optimality" /\ ret.kind # "none" /\ call.delta > 0) =>
        LET information == MatMul(Transpose(call.X), call.X)
            ridge == [i \in DOMAIN information |-> [j \in DOMAIN information |->
                        information[i][j] + (IF i = j THEN call.delta ELSE 0)]]
            hat == MatMul(MatMul(call.X, inv(ridge).adj), Transpose(call.X))
            largest == CHOOSE v \in {hat[i][i] : i \in DOMAIN hat} :
                            \A i \in DOMAIN hat : hat[i][i] <= v
        IN /\ ret.kind = "value"
           /\ ret.num * inv(ridge).det = largest * ret.den

\* number of roots above delta of the characteristic polynomial of X^T X
EigenvaluesAboveDelta ==
    LET A == MatMul(Transpose(call.X), call.X)
        trace == SumSeq([i \in DOMAIN A |-> A[i][i]])
        det == IF Len(A) = 1 THEN A[1][1] ELSE A[1][1] * A[2][2] - A[1][2] * A[2][1]
        q == call.delta * call.delta - trace * call.delta + det
    IN IF Len(A) = 1 THEN (IF A[1][1] > call.delta THEN 1 ELSE 0)
       ELSE IF q > 0 THEN (IF trace > 2 * call.delta THEN 2 ELSE 0)
       ELSE IF q < 0 THEN 1
       ELSE (IF trace - call.delta > call.delta THEN 1 ELSE 0)

\* C20: d_optimality and a_optimality use exactly the eigenvalues of X^T X
\* of magnitude strictly greater than delta, the largest ones, and none of
\* them is zero: no log(0), no division by 0.
C20_EigenvaluesFiltered ==
    (call.fn \in {"d_optimality", "a_optimality"} /\ ret.kind # "none") =>
        LET all == eigvalsh(MatMul(Transpose(call.X), call.X)) IN
        /\ ret.kind = "value"
        /\ Len(ret.eigenvalues) = EigenvaluesAboveDelta
        /\ ret.eigenvalues = SubSeq(all, Len(all) - EigenvaluesAboveDelta + 1, Len(all))
        /\ \A i \in DOMAIN ret.eigenvalues : ~IsZero(ret.eigenvalues[i])

\* two equal design rows: a zero eigenvalue is dropped, a positive one kept
C20_Witness ==
    /\ call.fn = "d_optimality"
    /\ ret.kind = "value"
    /\ call.X = << <<1, 1>>, <<1, 1>> >>
    /\ call.delta = 0
    /\ Len(ret.eigenvalues) = 1


(***************************************************************************)
(* Claims about the assignment of combinations to experiments              *)
(***************************************************************************)
\* the combination (input positions, from 0) that constraint number k
\* chooses for experiment i: number i mod C of its shuffled list
ChosenCombination(k, i) == bout.shuffled[k][(i % Len(bout.shuffled[k])) + 1]

\* the combination is pinned in the block of experiment i
PinnedCombination(k, i) ==
    \A j \in ChosenCombination(k, i) : BlockEntry(i, j + 1) = <<0, 0>>

\* C22: experiment i gets combination number i mod C of the once-shuffled
\* list of the C combinations of |features| - max_count features: that
\* combination is pinned in block i, so with n_experiments >= C every
\* combination is pinned in some experiment.
C22_RoundRobin ==
    bout.kind = "bounds" =>
        \A k \in DOMAIN bdom.constraints :
            bdom.constraints[k].type = "NChooseK" =>
                /\ Range(bout.shuffled[k]) = InactiveCombinations(bdom, bdom.constraints[k])
                /\ \A i \in 0..(bn - 1) : PinnedCombination(k, i)
                /\ bn >= Len(bout.shuffled[k]) =>
                        \A c \in DOMAIN bout.shuffled[k] :
                            \E i \in 0..(bn - 1) :
                                /\ ChosenCombination(k, i) = bout.shuffled[k][c]
                                /\ PinnedCombination(k, i)

\* C26: the entries of the returned list that are (0, 0) in the block of
\* experiment i are exactly those of the features of the combinations
\* chosen for i, and every other entry is the original bounds of its
\* input, also when the domain has inputs that are not continuous.
C26_OnlyPinnedEntriesChange ==
    bout.kind = "bounds" =>
        /\ Len(bout.bounds) = bn * Len(BoundsContinuous)
        /\ \A i \in 0..(bn - 1) : \A j \in DOMAIN BoundsContinuous :
                BlockEntry(i, j) =
                    IF \E k \in DOMAIN bdom.constraints :
                            /\ bdom.constraints[k].type = "NChooseK"
                            /\ (j - 1) \in ChosenCombination(k, i)
                    THEN <<0, 0>>
                    ELSE <<BoundsContinuous[j].lo, BoundsContinuous[j].hi>>

(***************************************************************************)
(* Claims about the interpreter state get_formula_from_string leaves       *)
(***************************************************************************)
\* C27: on every return path (keyword, explicit formula string, built
\* Formula object) the recursion limit after the call is the limit before.
C27_RecursionLimitRestored ==
    (call.fn = "get_formula_from_string" /\ ret.kind = "Formula") =>
        ret.recursion_limit = call.recursion_limit


(***************************************************************************)
(* Claims about the categories and the arguments of the group              *)
(***************************************************************************)
\* the keys a category stands for: its pieces without the group identifier
\* and the separators; 'pick_none' stands for no key
SelectionOf(category) ==
    IF category = <<"g", "_", "pick", "_", "none">> THEN {}
    ELSE {category[p] : p \in {q \in DOMAIN category : q > 2 /\ category[q] # "_"}}

\* C28: the categories of the returned CategoricalInput are exactly the
\* selections of s keys with pick_at_least <= s <= pick_at_most, the empty
\* selection being 'pick_none'.
C28_CategoriesWithinPickRange ==
    (GroupReturned /\ ret.kind = "return") =>
        LET names == {call.keys[i][1] : i \in DOMAIN call.keys} IN
        {SelectionOf(ret.categories[c]) : c \in DOMAIN ret.categories}
            = {T \in SUBSET names :
                    call.pick_at_least <= Cardinality(T) /\ Cardinality(T) <= call.pick_at_most}

\* C29: after a successful call the caller's keys list holds the elements
\* it held before the call.
C29_KeysArgumentUnchanged ==
    (GroupReturned /\ ret.kind = "return") => ret.keys = call.keys


(***************************************************************************)
(* CategoricalInput: one-hot encoding.  A name is the sequence of its      *)
(* pieces, the separator "_" being a piece of its own.                     *)
(***************************************************************************)
MaxSeries == 2     \* longest series of category values

\* f"{self.key}{_CAT_SEP}{c}": values == c, one column per category
to_onehot_encoding(key, categories, values) ==
    [c \in DOMAIN categories |->
        [name |-> key \o <<"_">> \o categories[c],
         column |-> [i \in DOMAIN values |-> IF values[i] = categories[c] THEN 1 ELSE 0]]]

\* .str.split(_CAT_SEP, expand=True)[1]: the second of the pieces that the
\* separators cut the column name into
AfterSeparator(name, key) ==
    LET seps == {p \in DOMAIN name : name[p] = "_"}
        cut == CHOOSE p \in seps : \A q \in seps : p <= q
        rest == {p \in seps : p > cut}
        stop == IF rest = {} THEN Len(name) + 1
                ELSE CHOOSE p \in rest : \A q \in rest : p <= q
    IN SubSeq(name, cut + 1, stop - 1)

\* values[cat_cols].idxmax(1), then the category cut out of the column name
from_onehot_encoding(key, categories, frame) ==
    LET cat_cols == [c \in DOMAIN categories |-> key \o <<"_">> \o categories[c]]
        col(name) == frame[CHOOSE c \in DOMAIN frame : frame[c].name = name].column
        idxmax(i) ==
            LET best == CHOOSE v \in {col(cat_cols[c])[i] : c \in DOMAIN cat_cols} :
                            \A c \in DOMAIN cat_cols : col(cat_cols[c])[i] <= v
                hit == CHOOSE c \in DOMAIN cat_cols :
                            /\ col(cat_cols[c])[i] = best
                            /\ \A d \in DOMAIN cat_cols : col(cat_cols[d])[i] = best => c <= d
            IN cat_cols[hit]
    IN IF \E c \in DOMAIN cat_cols : \A d \in DOMAIN frame : frame[d].name # cat_cols[c]
       THEN [kind |-> "ValueError", series |-> <<>>]
       ELSE [kind |-> "series",
             series |-> [i \in DOMAIN frame[1].column |-> AfterSeparator(idxmax(i), key)]]

CallOneHotRoundTrip ==
    /\ call.fn = "from_onehot_encoding"
    /\ ret.kind = "none"
    /\ ret' = from_onehot_encoding(call.key, call.categories,
                    to_onehot_encoding(call.key, call.categories, call.values))
    /\ UNCHANGED call
    /\ UNCHANGED <<samplerVars, boundsVars, scipyVars>>

InitOneHot ==
    /\ IdleSampler
    /\ IdleBounds
    /\ IdleScipy
    /\ \E key \in {<<"x">>, <<"x", "_", "1">>} :
       \E n \in 2..3 :
       \E categories \in InjSeqs({<<"a">>, <<"b">>, <<"a", "_", "b">>}, n) :
       \E len \in 1..MaxSeries :
       \E values \in [1..len -> Range(categories)] :
            call = [fn |-> "from_onehot_encoding", key |-> key,
                    categories |-> categories, values |-> values]
    /\ ret = [kind |-> "none"]

SpecOneHot == InitOneHot /\ [][CallOneHotRoundTrip]_vars

\* C30: from_onehot_encoding(to_onehot_encoding(v)) = v for every key,
\* every list of categories and every series v of its categories, also
\* when a key or a category name contains the separator "_".
C30_OneHotRoundTrip ==
    (call.fn = "from_onehot_encoding" /\ ret.kind # "none") =>
        (ret.kind = "series" /\ ret.series = call.values)


(***************************************************************************)
(* Relaxable inputs of the design strategy: ContinuousBinaryInput with     *)
(* fix_to and relax, PrivateRelaxableDiscreteInput with its bound setters  *)
(* and equal_count_split.  call holds the object, ret the last method      *)
(* call made on it together with the state it found.                       *)
(***************************************************************************)
\* fix_to without the check of the value
fix_to_unchecked(bounds, value) == [raised |-> "none", bounds |-> <<value, value>>]

\* if value != 0 and value != 1: raise ValueError; self.bounds = (value, value)
fix_to(bounds, value) ==
    IF value # 0 /\ value # 1
    THEN [raised |-> "ValueError", bounds |-> bounds]
    ELSE [raised |-> "none", bounds |-> <<value, value>>]

FixTo ==
    /\ call.fn = "ContinuousBinaryInput"
    /\ \E value \in -1..2 :
        /\ ret' = [kind |-> "fix_to", value |-> value, before |-> call.bounds,
                   raised |-> fix_to(call.bounds, value).raised]
        /\ call' = [call EXCEPT !.bounds = fix_to(call.bounds, value).bounds]
    /\ UNCHANGED <<samplerVars, boundsVars, scipyVars>>

\* self.bounds = (0, 1)
Relax ==
    /\ call.fn = "ContinuousBinaryInput"
    /\ ret' = [kind |-> "relax", before |-> call.bounds]
    /\ call' = [call EXCEPT !.bounds = <<0, 1>>]
    /\ UNCHANGED <<samplerVars, boundsVars, scipyVars>>

\* the lower_bound setter keeping the values above lb only
lower_bound_setter_strict(values, lb) == SelectSeq(values, LAMBDA val : val > lb)

\* self.values = [val for val in self.values if val >= lb]
lower_bound_setter(values, lb) == SelectSeq(values, LAMBDA val : val >= lb)

SetLowerBound ==
    /\ call.fn = "PrivateRelaxableDiscreteInput"
    /\ \E lb \in 0..MaxValues :
        /\ ret' = [kind |-> "lower_bound", bound |-> lb, before |-> call.values]
        /\ call' = [call EXCEPT !.values = lower_bound_setter(call.values, lb)]
    /\ UNCHANGED <<samplerVars, boundsVars, scipyVars>>

\* self.values = [val for val in self.values if val <= ub]
SetUpperBound ==
    /\ call.fn = "PrivateRelaxableDiscreteInput"
    /\ \E ub \in 0..MaxValues :
        /\ ret' = [kind |-> "upper_bound", bound |-> ub, before |-> call.values]
        /\ call' = [call EXCEPT !.values = SelectSeq(call.values, LAMBDA val : val <= ub)]
    /\ UNCHANGED <<samplerVars, boundsVars, scipyVars>>

\* self.values.sort(), then the two middle elements of the values in
\* [lower_bound, upper_bound]; an empty range indexes an empty list
equal_count_split(values, lower_bound, upper_bound) ==
    LET RECURSIVE insert(_, _)
        insert(v, s) == IF s = <<>> THEN <<v>>
                        ELSE IF v < Head(s) THEN <<v>> \o s
                        ELSE <<Head(s)>> \o insert(v, Tail(s))
        RECURSIVE sorted(_)
        sorted(s) == IF s = <<>> THEN <<>> ELSE insert(s[Len(s)], sorted(SubSeq(s, 1, Len(s) - 1)))
        sub_list == SelectSeq(sorted(values), LAMBDA elem : lower_bound <= elem /\ elem <= upper_bound)
        size == Len(sub_list)
        lower_index == IF size % 2 = 0 THEN (size \div 2) - 1 ELSE size \div 2
        upper_index == IF size % 2 = 0 THEN size \div 2 ELSE (size \div 2) + 1
    IN IF size = 0 THEN [raised |-> "IndexError", values |-> sorted(values), x |-> 0, y |-> 0]
       ELSE IF size = 1
       THEN [raised |-> "none", values |-> sorted(values), x |-> sub_list[1], y |-> sub_list[1]]
       ELSE [raised |-> "none", values |-> sorted(values),
             x |-> sub_list[lower_index + 1], y |-> sub_list[upper_index + 1]]

EqualCountSplit ==
    /\ call.fn = "PrivateRelaxableDiscreteInput"
    /\ \E lower_bound, upper_bound \in 0..MaxValues :
        LET split == equal_count_split(call.values, lower_bound, upper_bound)
        IN /\ ret' = [kind |-> "equal_count_split", lower_bound |-> lower_bound,
                      upper_bound |-> upper_bound, before |-> call.values,
                      raised |-> split.raised, x |-> split.x, y |-> split.y]
           /\ call' = [call EXCEPT !.values = split.values]
    /\ UNCHANGED <<samplerVars, boundsVars, scipyVars>>

\* a binary input with bounds that validate_lower_upper accepts, or a
\* discrete input with a list of distinct values in any order
InitRelaxable ==
    /\ IdleSampler
    /\ IdleBounds
    /\ IdleScipy
    /\ \/ \E bounds \in {<<0, 1>>, <<0, 0>>, <<1, 1>>} :
            call = [fn |-> "ContinuousBinaryInput", bounds |-> bounds]
       \/ \E n \in 1..4 : \E values \in InjSeqs(0..MaxValues, n) :
            call = [fn |-> "PrivateRelaxableDiscreteInput", values |-> values,
                    original |-> values]
    /\ ret = [kind |-> "none"]

NextRelaxable == FixTo \/ Relax \/ SetLowerBound \/ SetUpperBound \/ EqualCountSplit

SpecRelaxable == InitRelaxable /\ [][NextRelaxable]_vars

\* C23: after any sequence of fix_to and relax calls the bounds of a
\* ContinuousBinaryInput are (0, 1), (0, 0) or (1, 1); fix_to(0) and
\* fix_to(1) set both bounds to the value, relax sets (0, 1), fix_to with
\* another value raises ValueError and leaves the bounds as they were.
C23_BinaryBounds ==
    call.fn = "ContinuousBinaryInput" =>
        /\ call.bounds \in {<<0, 1>>, <<0, 0>>, <<1, 1>>}
        /\ (ret.kind = "fix_to" /\ ret.value \in {0, 1}) =>
                (ret.raised = "none" /\ call.bounds = <<ret.value, ret.value>>)
        /\ (ret.kind = "fix_to" /\ ret.value \notin {0, 1}) =>
                (ret.raised = "ValueError" /\ call.bounds = ret.before)
        /\ ret.kind = "relax" => call.bounds = <<0, 1>>

\* a rejected fix_to on a fixed input: the bounds stay fixed
C23_Witness ==
    /\ call.fn = "ContinuousBinaryInput"
    /\ ret.kind = "fix_to"
    /\ ret.value = 2
    /\ ret.before = <<1, 1>>
    /\ call.bounds = <<1, 1>>

ValuesIn(values, lo, hi) == {v \in Range(values) : lo <= v /\ v <= hi}

\* C24: equal_count_split(lower_bound, upper_bound) returns two of the
\* values, x and y, such that [lower_bound, x] and [y, upper_bound] hold the
\* same number of values, whenever the range holds at least two values.
C24_EqualCounts ==
    (/\ call.fn = "PrivateRelaxableDiscreteInput"
     /\ ret.kind = "equal_count_split"
     /\ Cardinality(ValuesIn(ret.before, ret.lower_bound, ret.upper_bound)) >= 2) =>
        /\ ret.raised = "none"
        /\ ret.x \in Range(ret.before)
        /\ ret.y \in Range(ret.before)
        /\ Cardinality(ValuesIn(ret.before, ret.lower_bound, ret.x)) =
           Cardinality(ValuesIn(ret.before, ret.y, ret.upper_bound))


\* the lower_bound and upper_bound properties: min(self.values) and
\* max(self.values), which raise ValueError on an empty list
ReadBounds(values) ==
    IF values = <<>>
    THEN [raised |-> "ValueError", lower_bound |-> 0, upper_bound |-> 0]
    ELSE [raised |-> "none",
          lower_bound |-> CHOOSE v \in Range(values) : \A w \in Range(values) : v <= w,
          upper_bound |-> CHOOSE v \in Range(values) : \A w \in Range(values) : w <= v]

BoundAssigned ==
    /\ call.fn = "PrivateRelaxableDiscreteInput"
    /\ ret.kind \in {"lower_bound", "upper_bound"}

KeepsExactlyTheValuesWithinBound ==
    /\ ret.kind = "lower_bound" =>
            Range(call.values) = {v \in Range(ret.before) : v >= ret.bound}
    /\ ret.kind = "upper_bound" =>
            Range(call.values) = {v \in Range(ret.before) : v <= ret.bound}
    /\ Range(call.values) \subseteq Range(call.original)

ReadsSmallestAndLargest ==
    /\ ReadBounds(call.values).raised = "none"
    /\ ReadBounds(call.values).lower_bound \in Range(call.values)
    /\ ReadBounds(call.values).upper_bound \in Range(call.values)
    /\ \A v \in Range(call.values) :
            ReadBounds(call.values).lower_bound <= v /\ v <= ReadBounds(call.values).upper_bound

\* C25: assigning lower_bound = lb keeps exactly the values >= lb, assigning
\* upper_bound = ub exactly the values <= ub; after any sequence of such
\* assignments the values are a subset of the original ones, no removed
\* value comes back, and lower_bound and upper_bound read back as the
\* smallest and the largest remaining value.
C25_BoundsFilterAndReadBack ==
    BoundAssigned => (KeepsExactlyTheValuesWithinBound /\ ReadsSmallestAndLargest)

\* C25 as the code has it: the bounds read back as the smallest and largest
\* remaining value while a value remains; once the assignments have removed
\* every value, reading a bound raises ValueError.
C25_BoundsFilterAndReadBackWhileValuesRemain ==
    BoundAssigned =>
        /\ KeepsExactlyTheValuesWithinBound
        /\ call.values # <<>> => ReadsSmallestAndLargest
        /\ call.values = <<>> => ReadBounds(call.values).raised = "ValueError"

\* a looser lower bound assigned after values have been removed
C25_Witness ==
    /\ BoundAssigned
    /\ ret.kind = "lower_bound"
    /\ ret.bound = 0
    /\ 0 \in Range(call.original)
    /\ 0 \notin Range(ret.before)
    /\ call.values = ret.before
    /\ Len(call.values) >= 2

==============================================================================
